---- MODULE Spec2Model ----
(***************************************************************************)
(* A model of go-geoguard: the risk-evaluation engine (pkg/engine), the    *)
(* privacy transforms (MaskIP, GenerateFingerprintHash), the built-in      *)
(* rules (pkg/rules) and the in-memory history store (pkg/storage).        *)
(*                                                                         *)
(* Representation of Go values:                                            *)
(*   - a Go string that may hold an IP address is a sequence of tokens; an *)
(*     address text is one token ([t |-> "v4", v |-> four octets] for      *)
(*     dotted-quad text, [t |-> "v6", v |-> eight 16-bit groups] for colon *)
(*     text), "/" is the token Slash and a decimal length is Num(n).  The  *)
(*     empty string is << >>.  Address texts are identified up to the      *)
(*     canonical form net.IP.String prints.                                *)
(*   - a parsed net.IP is the 16-byte form, written as eight 16-bit groups.*)
(*   - a nil pointer is Nil.                                               *)
(*   - float64 coordinates are integers in millidegrees.                   *)
(*   - time.Time is an integer number of minutes.                          *)
(***************************************************************************)
EXTENDS Integers, Sequences, FiniteSets, TLC

VARIABLES rules, store, now, out, unit, proxy, mem, gs

vars == <<rules, store, now, out, unit, proxy, mem, gs>>

-----------------------------------------------------------------------------
(* Bounds of the model *)

MaxRules == 2

MaxTime == 1

-----------------------------------------------------------------------------
(* Basic values *)

Nil == [nil |-> TRUE]

Slash == [t |-> "/", v |-> << >>]

Num(n) == [t |-> "n", v |-> <<n>>]

Junk == [t |-> "x", v |-> << >>]

V4(a, b, c, d) == [t |-> "v4", v |-> <<a, b, c, d>>]

V6(h) == [t |-> "v6", v |-> h]

EmptyString == << >>

Abs(x) == IF x < 0 THEN -x ELSE x

-----------------------------------------------------------------------------
(* net.ParseIP, net.IP.To4, net.IP.Mask, net.IP.String as MaskIP uses them *)

\* net.ParseIP: the 16-byte form of a dotted-quad or colon text, Nil otherwise.
\* Dotted-quad text parses to the IPv4-mapped form ::ffff:a.b.c.d.
ParseIP(s) ==
    IF Len(s) # 1 THEN Nil
    ELSE IF s[1].t = "v4"
         THEN <<0, 0, 0, 0, 0, 65535, s[1].v[1] * 256 + s[1].v[2], s[1].v[3] * 256 + s[1].v[4]>>
    ELSE IF s[1].t = "v6" THEN s[1].v
    ELSE Nil

\* net.IP.To4 on a 16-byte address: the four octets of an IPv4-mapped address.
To4(ip) ==
    IF /\ \A i \in 1..5 : ip[i] = 0
       /\ ip[6] = 65535
    THEN <<ip[7] \div 256, ip[7] % 256, ip[8] \div 256, ip[8] % 256>>
    ELSE Nil

\* A mask that keeps all 32 bits
Mask24Keep(o) == o

\* ipv4.Mask(net.CIDRMask(24, 32))
Mask24(o) == <<o[1], o[2], o[3], 0>>

\* ipv6.Mask(net.CIDRMask(64, 128))
Mask64(ip) == <<ip[1], ip[2], ip[3], ip[4], 0, 0, 0, 0>>

\* net.IP.String printing a 4-byte address in colon form (::a00:100)
IPStringColon(ip) ==
    IF Len(ip) = 4 THEN V6(<<0, 0, 0, 0, 0, 0, ip[1] * 256 + ip[2], ip[3] * 256 + ip[4]>>)
    ELSE V6(ip)

\* net.IP.String: dotted-quad for a 4-byte or IPv4-mapped address, colon text otherwise.
IPString(ip) ==
    IF Len(ip) = 4 THEN V4(ip[1], ip[2], ip[3], ip[4])
    ELSE IF To4(ip) # Nil THEN V4(To4(ip)[1], To4(ip)[2], To4(ip)[3], To4(ip)[4])
    ELSE V6(ip)

MaskIP(ipStr) ==
    LET ip == ParseIP(ipStr) IN
    IF ip = Nil THEN EmptyString
    ELSE IF To4(ip) # Nil THEN <<IPString(Mask24(To4(ip))), Slash, Num(24)>>
    ELSE <<IPString(Mask64(ip)), Slash, Num(64)>>

\* data := userAgent + "|" + language; sha256 is taken as injective on data.
GenerateFingerprintHash(userAgent, language) ==
    [sha256 |-> userAgent \o <<"|">> \o language]

-----------------------------------------------------------------------------
(* The geolocation service (pkg/geoip) *)

ZeroGeoData ==
    [CountryCode |-> "", CityGeonameID |-> 0, Latitude |-> 0, Longitude |-> 0, Timezone |-> ""]

Istanbul ==
    [CountryCode |-> "TR", CityGeonameID |-> 745044, Latitude |-> 41000, Longitude |-> 29000,
     Timezone |-> "Europe/Istanbul"]

Ankara ==
    [CountryCode |-> "TR", CityGeonameID |-> 323786, Latitude |-> 40000, Longitude |-> 29000,
     Timezone |-> "Europe/Istanbul"]

Amsterdam ==
    [CountryCode |-> "NL", CityGeonameID |-> 2759794, Latitude |-> 68000, Longitude |-> 29000,
     Timezone |-> "Europe/Amsterdam"]

London ==
    [CountryCode |-> "GB", CityGeonameID |-> 2643743, Latitude |-> 51000, Longitude |-> 29000,
     Timezone |-> "Europe/London"]

\* The city database the reader was opened on.  It splits 10.0.1.0/24 into
\* networks in two different cities (10.0.1.0/26 and the rest) and maps the
\* whole of 10.0.2.0/24 to one city.  An address the database does not hold
\* yields the zero record and no error.
CityRecord(ip) ==
    LET o == To4(ip) IN
    IF o # Nil
    THEN IF <<o[1], o[2], o[3]>> = <<10, 0, 1>>
         THEN IF o[4] < 64 THEN Ankara ELSE Istanbul
         ELSE IF <<o[1], o[2], o[3]>> = <<10, 0, 2>> THEN Amsterdam
         ELSE ZeroGeoData
    ELSE IF <<ip[1], ip[2], ip[3], ip[4]>> = <<8193, 3512, 0, 1>> THEN London
    ELSE ZeroGeoData

\* The ASN database: autonomous system number and organization of an address.
ASNRecord(ip) ==
    LET o == To4(ip) IN
    IF o # Nil /\ <<o[1], o[2], o[3]>> = <<10, 0, 1>> THEN [asn |-> 9121, org |-> "Turk Telekom"]
    ELSE IF o # Nil /\ <<o[1], o[2], o[3]>> = <<10, 0, 2>> THEN [asn |-> 16509, org |-> "Amazon.com"]
    ELSE [asn |-> 0, org |-> ""]

\* The timezone of a city record, as the engine reads it from GeoData.Timezone.
LocationTimezone(record) == record.Timezone

\* Service.GetLocation; readerFails is the outcome of cityReader.City.
GetLocation(ipAddress, readerFails) ==
    LET ip == ParseIP(ipAddress) IN
    IF ip = Nil THEN [data |-> Nil, err |-> TRUE]
    ELSE IF readerFails THEN [data |-> Nil, err |-> TRUE]
    ELSE LET record == CityRecord(ip) IN
         [data |-> [CountryCode   |-> record.CountryCode,
                    CityGeonameID |-> record.CityGeonameID,
                    Latitude      |-> record.Latitude,
                    Longitude     |-> record.Longitude,
                    Timezone      |-> LocationTimezone(record)],
          err |-> FALSE]

\* Service.GetASN; readerFails is the outcome of asnReader.ASN.
GetASN(ipAddress, readerFails) ==
    LET ip == ParseIP(ipAddress) IN
    IF ip = Nil THEN [asn |-> 0, org |-> "", err |-> TRUE]
    ELSE IF readerFails THEN [asn |-> 0, org |-> "", err |-> TRUE]
    ELSE [asn |-> ASNRecord(ip).asn, org |-> ASNRecord(ip).org, err |-> FALSE]

-----------------------------------------------------------------------------
(* The rules (pkg/rules).  A scoring entry point returns [score, err].      *)
(* Distances are in metres, thresholds in km as configured, durations in   *)
(* minutes; comparisons are cross-multiplied so that no division is needed. *)

\* earthRadiusKm (6371.0) * pi / 180 in metres: the length of one degree of arc
metresPerDegree == 111195

\* The arc of d millidegrees in metres; the product is split to stay in 32 bits.
ArcMetres(d) == d * (metresPerDegree \div 1000) + (d * (metresPerDegree % 1000)) \div 1000

\* haversine for two points on one meridian (dLon = 0): a = sin^2(dLat/2), so
\* c = |dLat| in radians and the distance is earthRadiusKm * c.  Coordinates are
\* millidegrees, the result is metres.  Every coordinate pair of the model other
\* than the (0,0) sentinel lies on the meridian MeridianLon; two points on the
\* equator are handled alike.  Other pairs are outside the model.
haversine(lat1, lon1, lat2, lon2) ==
    IF lon1 = lon2 THEN ArcMetres(Abs(lat2 - lat1))
    ELSE IF lat1 = 0 /\ lat2 = 0
         THEN LET d == Abs(lon2 - lon1) IN ArcMetres(IF d > 180000 THEN 360000 - d ELSE d)
    ELSE CHOOSE d \in {} : TRUE

Ok(score) == [score |-> score, err |-> FALSE]

\* The zero value of a field the composite literal of a record leaves out.
InputLanguageOf(record) ==
    IF "InputLanguage" \in DOMAIN record THEN record.InputLanguage ELSE EmptyString

GeofencingValidate(g, input, lastRecord) == Ok(0)

\* Geofencing that also flags a centroid on the circle
GeofencingValidateWithGeoAtLeast(g, ctx, input, lastRecord) ==
    IF ctx.IPLatitude = 0 /\ ctx.IPLongitude = 0 THEN Ok(0)
    ELSE LET distance == haversine(g.CenterLat, g.CenterLon, ctx.IPLatitude, ctx.IPLongitude) IN
         IF distance >= g.RadiusKm * 1000 THEN Ok(g.RiskScore) ELSE Ok(0)

GeofencingValidateWithGeo(g, ctx, input, lastRecord) ==
    IF ctx.IPLatitude = 0 /\ ctx.IPLongitude = 0 THEN Ok(0)
    ELSE LET distance == haversine(g.CenterLat, g.CenterLon, ctx.IPLatitude, ctx.IPLongitude) IN
         IF distance > g.RadiusKm * 1000 THEN Ok(g.RiskScore) ELSE Ok(0)

IPGPSValidate(r, input, lastRecord) == Ok(0)

IPGPSValidateWithGeo(r, ctx, input, lastRecord) ==
    IF ctx.DeviceLatitude = 0 /\ ctx.DeviceLongitude = 0 THEN Ok(0)
    ELSE IF ctx.IPLatitude = 0 /\ ctx.IPLongitude = 0 THEN Ok(0)
    ELSE LET distance == haversine(ctx.IPLatitude, ctx.IPLongitude,
                                   ctx.DeviceLatitude, ctx.DeviceLongitude) IN
         IF distance > r.MaxDistanceKm * 1000 THEN Ok(r.RiskScore) ELSE Ok(0)

VelocityValidate(v, input, lastRecord) == Ok(0)

\* Velocity without the test of the elapsed time: distance / 0 is +Inf (NaN
\* for distance 0) and a negative duration gives a negative speed
VelocityValidateWithGeoDividing(v, ctx, input, lastRecord) ==
    IF lastRecord = Nil THEN Ok(0)
    ELSE IF ctx.IPLatitude = 0 /\ ctx.IPLongitude = 0 THEN Ok(0)
    ELSE IF ctx.PreviousIPLatitude = 0 /\ ctx.PreviousIPLongitude = 0 THEN Ok(0)
    ELSE LET distance == haversine(ctx.IPLatitude, ctx.IPLongitude,
                                   ctx.PreviousIPLatitude, ctx.PreviousIPLongitude)
             minutes  == input.Timestamp - lastRecord.Timestamp
         IN  IF minutes = 0
             THEN IF distance > 0 THEN Ok(v.RiskScore) ELSE Ok(0)
             ELSE IF minutes < 0 THEN Ok(0)
             ELSE IF distance * 60 > v.MaxSpeedKmh * 1000 * minutes THEN Ok(v.RiskScore)
             ELSE Ok(0)

\* Velocity that divides the distance by the minutes elapsed
VelocityValidateWithGeoPerMinute(v, ctx, input, lastRecord) ==
    IF lastRecord = Nil THEN Ok(0)
    ELSE IF ctx.IPLatitude = 0 /\ ctx.IPLongitude = 0 THEN Ok(0)
    ELSE IF ctx.PreviousIPLatitude = 0 /\ ctx.PreviousIPLongitude = 0 THEN Ok(0)
    ELSE LET distance == haversine(ctx.IPLatitude, ctx.IPLongitude,
                                   ctx.PreviousIPLatitude, ctx.PreviousIPLongitude)
             minutes  == input.Timestamp - lastRecord.Timestamp
         IN  IF minutes <= 0
             THEN IF distance > 10 * 1000 THEN Ok(v.RiskScore) ELSE Ok(0)
             ELSE IF distance > v.MaxSpeedKmh * 1000 * minutes THEN Ok(v.RiskScore)
             ELSE Ok(0)

\* Velocity that also flags travel at exactly the maximum speed
VelocityValidateWithGeoAtLeast(v, ctx, input, lastRecord) ==
    IF lastRecord = Nil THEN Ok(0)
    ELSE IF ctx.IPLatitude = 0 /\ ctx.IPLongitude = 0 THEN Ok(0)
    ELSE IF ctx.PreviousIPLatitude = 0 /\ ctx.PreviousIPLongitude = 0 THEN Ok(0)
    ELSE LET distance == haversine(ctx.IPLatitude, ctx.IPLongitude,
                                   ctx.PreviousIPLatitude, ctx.PreviousIPLongitude)
             minutes  == input.Timestamp - lastRecord.Timestamp
         IN  IF minutes <= 0
             THEN IF distance > 10 * 1000 THEN Ok(v.RiskScore) ELSE Ok(0)
             ELSE IF distance * 60 >= v.MaxSpeedKmh * 1000 * minutes THEN Ok(v.RiskScore)
             ELSE Ok(0)

\* Velocity that takes an unknown previous centroid for impossible travel
VelocityValidateWithGeoUnknownPrevious(v, ctx, input, lastRecord) ==
    IF lastRecord = Nil THEN Ok(0)
    ELSE IF ctx.IPLatitude = 0 /\ ctx.IPLongitude = 0 THEN Ok(0)
    ELSE IF ctx.PreviousIPLatitude = 0 /\ ctx.PreviousIPLongitude = 0 THEN Ok(v.RiskScore)
    ELSE LET distance == haversine(ctx.IPLatitude, ctx.IPLongitude,
                                   ctx.PreviousIPLatitude, ctx.PreviousIPLongitude)
             minutes  == input.Timestamp - lastRecord.Timestamp
         IN  IF minutes <= 0
             THEN IF distance > 10 * 1000 THEN Ok(v.RiskScore) ELSE Ok(0)
             ELSE IF distance * 60 > v.MaxSpeedKmh * 1000 * minutes THEN Ok(v.RiskScore)
             ELSE Ok(0)

VelocityValidateWithGeo(v, ctx, input, lastRecord) ==
    IF lastRecord = Nil THEN Ok(0)
    ELSE IF ctx.IPLatitude = 0 /\ ctx.IPLongitude = 0 THEN Ok(0)
    ELSE IF ctx.PreviousIPLatitude = 0 /\ ctx.PreviousIPLongitude = 0 THEN Ok(0)
    ELSE LET distance == haversine(ctx.IPLatitude, ctx.IPLongitude,
                                   ctx.PreviousIPLatitude, ctx.PreviousIPLongitude)
             minutes  == input.Timestamp - lastRecord.Timestamp
         IN  IF minutes <= 0
             THEN IF distance > 10 * 1000 THEN Ok(v.RiskScore) ELSE Ok(0)
             \* speed := distance / duration; speed > MaxSpeedKmh
             ELSE IF distance * 60 > v.MaxSpeedKmh * 1000 * minutes THEN Ok(v.RiskScore)
             ELSE Ok(0)

\* A timezone rule that compares with the previous record's IP timezone
TimezoneValidateAgainstLast(t, input, lastRecord) ==
    IF lastRecord = Nil THEN Ok(0)
    ELSE IF input.IPTimezone = "" \/ lastRecord.IPTimezone = "" THEN Ok(0)
    ELSE IF input.IPTimezone # lastRecord.IPTimezone THEN Ok(t.RiskScore)
    ELSE Ok(0)

TimezoneValidate(t, input, lastRecord) ==
    IF input.IPTimezone = "" \/ input.ClientTimezone = "" THEN Ok(0)
    ELSE IF input.IPTimezone # input.ClientTimezone THEN Ok(t.RiskScore)
    ELSE Ok(0)

FingerprintValidate(f, input, last) ==
    IF last = Nil THEN Ok(0)
    ELSE IF input.FingerprintHash # last.FingerprintHash THEN Ok(f.RiskScore)
    ELSE Ok(0)

\* strings.ToLower on the letters and country codes of the model
ToLower(s) ==
    CASE s = "T" -> "t" [] s = "R" -> "r" [] s = "E" -> "e" [] s = "N" -> "n"
      [] s = "TR" -> "tr" [] s = "NL" -> "nl" [] s = "GB" -> "gb"
      [] s = "DE" -> "de" [] s = "RU" -> "ru" [] s = "CN" -> "cn"
      [] OTHER -> s

CountryMismatchValidate(c, input, last) ==
    LET language == InputLanguageOf(input) IN
    IF input.CountryCode = "" \/ language = EmptyString THEN Ok(0)
    ELSE IF Len(language) < 2 THEN Ok(0)
    ELSE LET lang    == <<ToLower(language[1]), ToLower(language[2])>>
             country == ToLower(input.CountryCode)
         IN  IF country = "de" /\ lang = <<"t", "r">> THEN Ok(c.RiskScore)
             ELSE IF (country = "ru" \/ country = "cn") /\ lang = <<"e", "n">> THEN Ok(c.RiskScore)
             ELSE Ok(0)

\* The map lookup alone, without the test for ASN 0
DataCenterValidateAnyKey(d, input, lastRecord) ==
    IF input.ASN \in d.BlacklistedASNs THEN Ok(d.RiskScore) ELSE Ok(0)

DataCenterValidate(d, input, lastRecord) ==
    IF input.ASN = 0 THEN Ok(0)
    ELSE IF input.ASN \in d.BlacklistedASNs THEN Ok(d.RiskScore)
    ELSE Ok(0)

\* A rule supplied by the host: its entry points return what it is configured with.
CustomValidate(r, input, lastRecord) == [score |-> r.score, err |-> r.err]

CustomValidateWithGeo(r, ctx, input, lastRecord) == [score |-> r.geoScore, err |-> r.geoErr]

\* rule.(rules.EphemeralGeoRule): the rule has a ValidateWithGeo method.
IsEphemeralGeoRule(rule) ==
    \/ rule.kind \in {"Geofencing", "IPGPS", "Velocity"}
    \/ rule.kind = "Custom" /\ rule.geo

\* rule.Validate by dynamic dispatch on the rule's type
RuleValidate(rule, input, lastRecord) ==
    CASE rule.kind = "Geofencing"      -> GeofencingValidate(rule, input, lastRecord)
      [] rule.kind = "IPGPS"           -> IPGPSValidate(rule, input, lastRecord)
      [] rule.kind = "Velocity"        -> VelocityValidate(rule, input, lastRecord)
      [] rule.kind = "Timezone"        -> TimezoneValidate(rule, input, lastRecord)
      [] rule.kind = "Fingerprint"     -> FingerprintValidate(rule, input, lastRecord)
      [] rule.kind = "CountryMismatch" -> CountryMismatchValidate(rule, input, lastRecord)
      [] rule.kind = "DataCenter"      -> DataCenterValidate(rule, input, lastRecord)
      [] rule.kind = "Custom"          -> CustomValidate(rule, input, lastRecord)

\* geoRule.ValidateWithGeo by dynamic dispatch on the rule's type
RuleValidateWithGeo(rule, ctx, input, lastRecord) ==
    CASE rule.kind = "Geofencing" -> GeofencingValidateWithGeo(rule, ctx, input, lastRecord)
      [] rule.kind = "IPGPS"      -> IPGPSValidateWithGeo(rule, ctx, input, lastRecord)
      [] rule.kind = "Velocity"   -> VelocityValidateWithGeo(rule, ctx, input, lastRecord)
      [] rule.kind = "Custom"     -> CustomValidateWithGeo(rule, ctx, input, lastRecord)

RuleName(rule) ==
    CASE rule.kind = "Geofencing"      -> "Geofencing"
      [] rule.kind = "IPGPS"           -> "IP-GPS Crosscheck"
      [] rule.kind = "Velocity"        -> "Impossible Travel (Velocity Check)"
      [] rule.kind = "Timezone"        -> "Timezone Mismatch"
      [] rule.kind = "Fingerprint"     -> "Device Fingerprint Change"
      [] rule.kind = "CountryMismatch" -> "Country/Language Mismatch"
      [] rule.kind = "DataCenter"      -> "Data Center IP"
      [] rule.kind = "Custom"          -> rule.name

\* rule.Description(): the fixed text, with the parameter fmt.Sprintf fills in
RuleDescription(rule) ==
    CASE rule.kind = "Geofencing" -> <<"Verifies location is within %.1f km of allowed area.", rule.RadiusKm>>
      [] rule.kind = "IPGPS"      -> <<"Checks if IP location and GPS location differ by more than %.0f km.", rule.MaxDistanceKm>>
      [] rule.kind = "Velocity"   -> <<"Checks if travel speed between logins exceeds %.0f km/h.", rule.MaxSpeedKmh>>
      [] OTHER                    -> <<rule.kind>>

-----------------------------------------------------------------------------
(* The history store (pkg/storage) *)

\* MemoryStore.GetLastRecord: the stored record, or nil and no error.
GetLastRecord(data, userID) ==
    IF data[userID] # Nil THEN [rec |-> data[userID], err |-> FALSE]
    ELSE [rec |-> Nil, err |-> FALSE]

\* HistoryStore.GetLastRecord of any implementation of the port: the outcome is
\* the in-memory store's answer, an error, or an error together with a record.
HistoryFetch(data, userID, outcome) ==
    CASE outcome = "ok"            -> GetLastRecord(data, userID)
      [] outcome = "err"           -> [rec |-> Nil, err |-> TRUE]
      [] outcome = "errWithRecord" -> [rec |-> data[userID], err |-> TRUE]

\* maskIP of the storage package: the masked address without a length suffix,
\* IPv6 masked to /48.
StorageMaskIP(ipStr) ==
    LET ip == ParseIP(ipStr) IN
    IF ip = Nil THEN EmptyString
    ELSE IF To4(ip) # Nil THEN <<IPString(Mask24(To4(ip)))>>
    ELSE <<IPString(<<ip[1], ip[2], ip[3], 0, 0, 0, 0, 0>>)>>

\* MemoryStore.SaveRecord: stores a copy of the record under its UserID.
SaveRecordData(data, record) ==
    IF record = Nil THEN data
    ELSE LET recordToSave ==
                 IF "IPAddress" \in DOMAIN record /\ record.IPAddress # EmptyString
                 THEN [record EXCEPT !.IPAddress = StorageMaskIP(record.IPAddress)]
                 ELSE record
         IN  [data EXCEPT ![record.UserID] = recordToSave]

-----------------------------------------------------------------------------
(* The engine (pkg/engine) *)

\* Variants of the error branches, against which the properties are tried:
\* the location error is ignored and the nil data kept,
GeoDataKeepNil(res) == res.data

\* the location of an earlier lookup is used when the lookup fails,
GeoDataStale(res) == IF res.err THEN Amsterdam ELSE res.data

\* the record that came with a history error is kept.
LastRecordKeep(res) == res.rec

\* geoData, err := GetLocation(...); if err != nil { geoData = &geoip.GeoData{} }
GeoDataOrZero(res) == IF res.err THEN ZeroGeoData ELSE res.data

\* asn, orgName, err := GetASN(...); if err != nil { asn = 0; orgName = "" }
ASNOrZero(res) == IF res.err THEN [asn |-> 0, org |-> ""] ELSE [asn |-> res.asn, org |-> res.org]

\* lastRecord, err := GetLastRecord(...); if err != nil { lastRecord = nil }
LastRecordOrNil(res) == IF res.err THEN Nil ELSE res.rec

\* A variant of the record literal that stores the address as it came
NewLoginRecordRaw(input, timestamp, maskedIP, geoData, asn) ==
    [UserID          |-> input.UserID,
     Timestamp       |-> timestamp,
     MaskedIPPrefix  |-> input.IPAddress,
     CountryCode     |-> geoData.CountryCode,
     CityGeonameID   |-> geoData.CityGeonameID,
     ASN             |-> asn.asn,
     OrgName         |-> asn.org,
     FingerprintHash |-> GenerateFingerprintHash(input.UserAgent, input.AcceptLanguage),
     IPTimezone      |-> geoData.Timezone,
     ClientTimezone  |-> input.ClientTimezone]

\* The composite literal models.LoginRecord{...} of Validate
NewLoginRecord(input, timestamp, maskedIP, geoData, asn) ==
    [UserID          |-> input.UserID,
     Timestamp       |-> timestamp,
     MaskedIPPrefix  |-> maskedIP,
     CountryCode     |-> geoData.CountryCode,
     CityGeonameID   |-> geoData.CityGeonameID,
     ASN             |-> asn.asn,
     OrgName         |-> asn.org,
     FingerprintHash |-> GenerateFingerprintHash(input.UserAgent, input.AcceptLanguage),
     IPTimezone      |-> geoData.Timezone,
     ClientTimezone  |-> input.ClientTimezone]

\* The index of the last "/" of a string, 0 if it has none
LastSlash(s) ==
    LET at == {i \in 1..Len(s) : s[i] = Slash} IN
    IF at = {} THEN 0 ELSE CHOOSE i \in at : \A j \in at : j <= i

\* The argument lookupPreviousLocation passes to GetLocation
PreviousLookupArg(maskedIPPrefix) ==
    IF LastSlash(maskedIPPrefix) = 0 THEN maskedIPPrefix
    ELSE SubSeq(maskedIPPrefix, 1, LastSlash(maskedIPPrefix) - 1)

lookupPreviousLocation(maskedIPPrefix, readerFails) ==
    IF maskedIPPrefix = EmptyString THEN [data |-> Nil, err |-> FALSE]
    ELSE GetLocation(PreviousLookupArg(maskedIPPrefix), readerFails)

\* Whether buildGeoContext makes the second lookup
LooksUpPrevious(lastRecord) ==
    lastRecord # Nil /\ lastRecord.MaskedIPPrefix # EmptyString

\* The arguments of the calls of GetLocation in one Validate: the address of
\* the attempt (engine.go:124) and, in buildGeoContext, the previous prefix
LocationLookups(input, lastRecord) ==
    <<input.IPAddress>> \o
    (IF LooksUpPrevious(lastRecord)
     THEN <<PreviousLookupArg(lastRecord.MaskedIPPrefix)>>
     ELSE << >>)

\* A context built without the lookup of the previous prefix
buildGeoContextCurrentOnly(geoData, input, lastRecord, readerFails) ==
    [IPLatitude          |-> geoData.Latitude,
     IPLongitude         |-> geoData.Longitude,
     DeviceLatitude      |-> input.Latitude,
     DeviceLongitude     |-> input.Longitude,
     PreviousIPLatitude  |-> 0,
     PreviousIPLongitude |-> 0]

buildGeoContext(geoData, input, lastRecord, readerFails) ==
    LET ctx == [IPLatitude          |-> geoData.Latitude,
                IPLongitude         |-> geoData.Longitude,
                DeviceLatitude      |-> input.Latitude,
                DeviceLongitude     |-> input.Longitude,
                PreviousIPLatitude  |-> 0,
                PreviousIPLongitude |-> 0]
    IN  IF LooksUpPrevious(lastRecord)
        THEN LET prev == lookupPreviousLocation(lastRecord.MaskedIPPrefix, readerFails) IN
             IF ~prev.err /\ prev.data # Nil
             THEN [ctx EXCEPT !.PreviousIPLatitude  = prev.data.Latitude,
                              !.PreviousIPLongitude = prev.data.Longitude]
             ELSE ctx
        ELSE ctx

\* A variant of the loop body without the type assertion: always the plain entry point
DispatchPlain(rule, geoCtx, currentRecord, lastRecord) ==
    LET r == RuleValidate(rule, currentRecord, lastRecord) IN
    [entry |-> "Validate", ctx |-> Nil, input |-> currentRecord,
     last |-> lastRecord, score |-> r.score, err |-> r.err]

\* The type assertion and the call of one iteration of the rule loop: which
\* entry point is invoked, with which arguments, and what it returns.
Dispatch(rule, geoCtx, currentRecord, lastRecord) ==
    IF IsEphemeralGeoRule(rule)
    THEN LET r == RuleValidateWithGeo(rule, geoCtx, currentRecord, lastRecord) IN
         [entry |-> "ValidateWithGeo", ctx |-> geoCtx, input |-> currentRecord,
          last |-> lastRecord, score |-> r.score, err |-> r.err]
    ELSE LET r == RuleValidate(rule, currentRecord, lastRecord) IN
         [entry |-> "Validate", ctx |-> Nil, input |-> currentRecord,
          last |-> lastRecord, score |-> r.score, err |-> r.err]

NewViolation(rule, score) ==
    [RuleName |-> RuleName(rule), RiskScore |-> score, Reason |-> RuleDescription(rule)]

\* Variants of the aggregation, against which the properties are tried:
\* the error of the rule is ignored,
AggregateIgnoringError(result, rule, score, ruleErr) ==
    IF score > 0
    THEN [result EXCEPT !.TotalRiskScore = @ + score,
                        !.Violations = Append(@, NewViolation(rule, score))]
    ELSE result

\* a zero score is recorded too,
AggregateRecordingZero(result, rule, score, ruleErr) ==
    IF ruleErr THEN result
    ELSE IF score >= 0
    THEN [result EXCEPT !.TotalRiskScore = @ + score,
                        !.Violations = Append(@, NewViolation(rule, score))]
    ELSE result

\* a violation is put in front of the list,
AggregatePrepending(result, rule, score, ruleErr) ==
    IF ruleErr THEN result
    ELSE IF score > 0
    THEN [result EXCEPT !.TotalRiskScore = @ + score,
                        !.Violations = <<NewViolation(rule, score)>> \o @]
    ELSE result

\* any score other than zero is added and recorded.
AggregateAnyScore(result, rule, score, ruleErr) ==
    IF ruleErr THEN result
    ELSE IF score # 0
    THEN [result EXCEPT !.TotalRiskScore = @ + score,
                        !.Violations = Append(@, NewViolation(rule, score))]
    ELSE result

\* The rest of one iteration: skip on error, record a violation on a positive score.
Aggregate(result, rule, score, ruleErr) ==
    IF ruleErr THEN result
    ELSE IF score > 0
    THEN [result EXCEPT
            !.TotalRiskScore = @ + score,
            !.Violations = Append(@, NewViolation(rule, score))]
    ELSE result

\* for _, rule := range g.rules { ... }: acc holds the result, the calls made
\* and the total after each iteration.
RECURSIVE EvaluateRules(_, _, _, _, _, _)
EvaluateRules(rs, i, geoCtx, currentRecord, lastRecord, acc) ==
    IF i > Len(rs) THEN acc
    ELSE LET d == Dispatch(rs[i], geoCtx, currentRecord, lastRecord) IN
         EvaluateRules(rs, i + 1, geoCtx, currentRecord, lastRecord,
                       [result |-> Aggregate(acc.result, rs[i], d.score, d.err),
                        calls  |-> Append(acc.calls, d),
                        totals |-> Append(acc.totals,
                                          Aggregate(acc.result, rs[i], d.score, d.err).TotalRiskScore)])

NewRiskResult == [TotalRiskScore |-> 0, Violations |-> << >>, IsBlocked |-> FALSE]

\* GeoGuard.Validate.  env holds the outcomes of the ports for this call:
\* locFails, asnFails, prevFails (the readers) and hist (the history fetch).
\* The value holds what Validate returns and, for the properties, what it did.
ValidateCall(rs, data, timestamp, input, env) ==
    LET loc      == GetLocation(input.IPAddress, env.locFails)
        geoData  == GeoDataOrZero(loc)
        asn      == ASNOrZero(GetASN(input.IPAddress, env.asnFails))
        maskedIP == MaskIP(input.IPAddress)
    IN  IF geoData = Nil
        THEN [status |-> "panic", input |-> input, env |-> env]
        ELSE
        LET currentRecord == NewLoginRecord(input, timestamp, maskedIP, geoData, asn)
            lastRecord    == LastRecordOrNil(HistoryFetch(data, input.UserID, env.hist))
            geoCtx        == buildGeoContext(geoData, input, lastRecord, env.prevFails)
            done          == EvaluateRules(rs, 1, geoCtx, currentRecord, lastRecord,
                                           [result |-> NewRiskResult, calls |-> << >>,
                                            totals |-> << >>])
        IN  [status  |-> "returned",
             result  |-> done.result,
             record  |-> currentRecord,
             err     |-> Nil,
             input   |-> input,
             env     |-> env,
             locErr  |-> loc.err,
             last    |-> lastRecord,
             ctx     |-> geoCtx,
             calls   |-> done.calls,
             totals  |-> done.totals,
             lookups |-> LocationLookups(input, lastRecord),
             rules   |-> rs]

\* A variant in which Validate saves the record it built
StoreAfterValidateSaving(data, ret) ==
    IF ret.status = "returned" THEN SaveRecordData(data, ret.record) ELSE data

\* What Validate leaves in the history store: it never calls SaveRecord.
StoreAfterValidate(data, ret) == data

-----------------------------------------------------------------------------
(* The inputs of the model *)

Users == {"u1", "u2"}

Goroutines == {"g1", "g2"}

MeridianLon == 29000

IPa == <<V4(10, 0, 1, 55)>>

\* the same /24 as IPa, in the other city of the split network
IPa2 == <<V4(10, 0, 1, 77)>>

IPb == <<V4(10, 0, 2, 9)>>

\* 2001:db8:0:1::5 and 2001:db8:0:1::7:9, one /64
IPc == <<V6(<<8193, 3512, 0, 1, 0, 0, 0, 5>>)>>

IPc2 == <<V6(<<8193, 3512, 0, 1, 0, 0, 7, 9>>)>>

\* ::ffff:10.0.1.55 and ::ffff:10.0.2.9: IPv6 texts that differ in the low 64 bits only
IPm == <<V6(<<0, 0, 0, 0, 0, 65535, 2560, 311>>)>>

IPm2 == <<V6(<<0, 0, 0, 0, 0, 65535, 2560, 521>>)>>

IPbad == <<Junk>>

RawIPs == {IPa, IPa2, IPb, IPc, IPc2, IPm, IPm2, IPbad}

\* What the client sends along: device coordinates, headers, timezone
ClientHome ==
    [Latitude |-> 0, Longitude |-> 0, UserAgent |-> <<"A">>,
     AcceptLanguage |-> <<"t", "r">>, ClientTimezone |-> "Europe/Istanbul"]

ClientPhone ==
    [Latitude |-> 41000, Longitude |-> MeridianLon, UserAgent |-> <<"B">>,
     AcceptLanguage |-> <<"t", "r">>, ClientTimezone |-> "Europe/Istanbul"]

ClientBare ==
    [Latitude |-> 0, Longitude |-> 0, UserAgent |-> <<"A">>,
     AcceptLanguage |-> <<"E", "N">>, ClientTimezone |-> ""]

MakeInput(u, ip, c) ==
    [UserID |-> u, IPAddress |-> ip, Latitude |-> c.Latitude, Longitude |-> c.Longitude,
     UserAgent |-> c.UserAgent, AcceptLanguage |-> c.AcceptLanguage,
     ClientTimezone |-> c.ClientTimezone]

\* The login attempts of the model
Inputs ==
    { MakeInput("u1", IPa, ClientHome),
      MakeInput("u1", IPa, ClientPhone),
      MakeInput("u1", IPa2, ClientHome),
      MakeInput("u1", IPb, ClientPhone),
      MakeInput("u1", IPc, ClientBare),
      MakeInput("u1", IPm, ClientHome),
      MakeInput("u1", IPbad, ClientHome),
      MakeInput("u2", IPa, ClientHome) }

\* The users whose records the host persists; a login of any other user is
\* always a first login.
Persisted == {"u1"}

\* The rules a host configures
Velocity(maxSpeed, score) == [kind |-> "Velocity", MaxSpeedKmh |-> maxSpeed, RiskScore |-> score]

Fingerprint(score) == [kind |-> "Fingerprint", RiskScore |-> score]

NewCountryMismatchRule(score) == [kind |-> "CountryMismatch", RiskScore |-> score]

Timezone(score) == [kind |-> "Timezone", RiskScore |-> score]

NewGeofencingRule(lat, lon, radius, score) ==
    [kind |-> "Geofencing", CenterLat |-> lat, CenterLon |-> lon, RadiusKm |-> radius,
     RiskScore |-> score]

IPGPS(maxDist, score) == [kind |-> "IPGPS", MaxDistanceKm |-> maxDist, RiskScore |-> score]

DataCenter(blacklist, score) == [kind |-> "DataCenter", BlacklistedASNs |-> blacklist, RiskScore |-> score]

DefaultDataCenterRule(score) ==
    DataCenter({16509, 14618, 15169, 396982, 8075, 14061, 24940, 16276, 12876, 49981,
                20473, 60068, 9009, 20940, 13335, 63949, 46606, 36352}, score)

Custom(name, geo, score, err, geoScore, geoErr) ==
    [kind |-> "Custom", name |-> name, geo |-> geo, score |-> score, err |-> err,
     geoScore |-> geoScore, geoErr |-> geoErr]

\* The rules of configureRules, with the thresholds of the scenarios example
BuiltinRules ==
    { NewGeofencingRule(41000, MeridianLon, 1500, 30),
      DefaultDataCenterRule(35),
      IPGPS(100, 25),
      Timezone(40),
      Velocity(900, 80),
      Fingerprint(30),
      NewCountryMismatchRule(20) }

\* Rules of the host's own, and two stateful built-in rules beside them
HostRules ==
    { Custom("AlwaysErr", FALSE, 50, TRUE, 0, FALSE),
      Custom("Both", TRUE, 7, FALSE, 9, FALSE),
      Custom("Negative", FALSE, -5, FALSE, 0, FALSE),
      Velocity(900, 80),
      Fingerprint(30) }

\* The port outcomes that make a difference for this input and this store
Envs(data, input) ==
    LET parses == ParseIP(input.IPAddress) # Nil
        stored == data[input.UserID]
    IN  { e \in [locFails : BOOLEAN, asnFails : BOOLEAN, prevFails : BOOLEAN,
                 hist : {"ok", "err", "errWithRecord"}] :
            /\ (~parses => ~e.locFails /\ ~e.asnFails)
            /\ (e.hist = "errWithRecord" => stored # Nil)
            /\ (e.prevFails => e.hist = "ok" /\ LooksUpPrevious(stored)) }

-----------------------------------------------------------------------------
(* MemoryStore as Go runs it: a map of pointers behind a sync.RWMutex *)

MaxSaves == 2

\* NewMemoryStore: an empty map and a free lock.  The records the map points
\* to live in heap; a pointer is an index into it and 0 is the nil pointer.
NewMemoryStore ==
    [data |-> [u \in Users |-> 0], heap |-> << >>, writer |-> "none", readers |-> {}]

\* *p
Deref(heap, p) == IF p = 0 THEN Nil ELSE heap[p]

\* m.data with every pointer followed
DataOf(m) == [u \in Users |-> Deref(m.heap, m.data[u])]

\* A lock that lets every caller in
CanEnter(m) == TRUE

\* m.mu.RLock() returns: no writer holds the lock
CanRLock(m) == m.writer = "none"

\* m.mu.Lock() returns: nobody holds the lock
CanLock(m) == m.writer = "none" /\ m.readers = {}

\* A save that overwrites the record the map already points to
WriteRecordInPlace(m, record) ==
    LET recordToSave == SaveRecordData(DataOf(m), record)[record.UserID] IN
    IF m.data[record.UserID] = 0
    THEN [m EXCEPT !.heap = Append(@, recordToSave), !.data[record.UserID] = Len(m.heap) + 1]
    ELSE [m EXCEPT !.heap[m.data[record.UserID]] = recordToSave]

\* recordToSave := *record; ...; m.data[record.UserID] = &recordToSave
WriteRecord(m, record) ==
    LET recordToSave == SaveRecordData(DataOf(m), record)[record.UserID] IN
    [m EXCEPT !.heap = Append(@, recordToSave), !.data[record.UserID] = Len(m.heap) + 1]

\* A current record kept where every call reaches it: a call that runs beside
\* another one reads the other call's record
currentRecordShared(locals, g) ==
    LET others == {h \in DOMAIN locals : h # g /\ locals[h].pc \in {"fetch", "rules"}} IN
    IF others = {} THEN locals[g].record
    ELSE locals[CHOOSE h \in others : TRUE].record

\* currentRecord, a local variable of Validate
currentRecord(locals, g) == locals[g].record

\* A goroutine that is in no call
Idle == [pc |-> "idle", op |-> "", user |-> "", rec |-> Nil, ret |-> Nil]

-----------------------------------------------------------------------------
(* The state machine *)

Init ==
    /\ rules = << >>
    /\ store = [u \in Users |-> Nil]
    /\ now = 0
    /\ out = Nil
    /\ unit = Nil
    /\ proxy = Nil
    /\ mem = NewMemoryStore
    /\ gs = [g \in Goroutines |-> Idle]

\* GeoGuard.AddRule
AddRuleOf(r) ==
    /\ out = Nil
    /\ Len(rules) < MaxRules
    /\ rules' = Append(rules, r)
    /\ UNCHANGED <<store, now, out, unit, proxy, mem, gs>>

\* The host adds one of its own rules
AddRule == \E r \in HostRules : AddRuleOf(r)

\* The host adds a built-in rule
AddBuiltinRule == \E r \in BuiltinRules : AddRuleOf(r)

\* GeoGuard.Validate, called by the host with an input; time.Now() reads the clock
Validate ==
    /\ out = Nil
    /\ \E input \in Inputs : \E env \in Envs(store, input) :
         LET ret == ValidateCall(rules, store, now, input, env) IN
         /\ out' = ret
         /\ store' = StoreAfterValidate(store, ret)
    /\ UNCHANGED <<rules, now, unit, proxy, mem, gs>>

\* The host persists the record Validate returned: store.SaveRecord(record)
SaveRecord ==
    /\ out # Nil
    /\ out.status = "returned"
    /\ out.record.UserID \in Persisted
    /\ store' = SaveRecordData(store, out.record)
    /\ out' = Nil
    /\ UNCHANGED <<rules, now, unit, proxy, mem, gs>>

\* The host drops the record (a blocked login)
Discard ==
    /\ out # Nil
    /\ out' = Nil
    /\ UNCHANGED <<rules, store, now, unit, proxy, mem, gs>>

\* Time passes
Tick ==
    /\ out = Nil
    /\ now < MaxTime * 60
    /\ now' = now + 60
    /\ UNCHANGED <<rules, store, out, unit, proxy, mem, gs>>

Next == AddRule \/ Validate \/ SaveRecord \/ Discard \/ Tick

Spec == Init /\ [][Next]_vars

\* The engine configured with the built-in rules
NextBuiltin == AddBuiltinRule \/ Validate \/ SaveRecord \/ Discard \/ Tick

SpecBuiltin == Init /\ [][NextBuiltin]_vars

-----------------------------------------------------------------------------
(* A rule called directly, as a host or a test of the rules package calls it *)

\* A LoginRecord handed to a rule by a direct caller.  InputLanguage is the
\* field CountryMismatchRule.Validate reads.
RuleRecord(country, language, userAgent, timestamp) ==
    [UserID          |-> "u1",
     Timestamp       |-> timestamp,
     MaskedIPPrefix  |-> EmptyString,
     CountryCode     |-> country,
     CityGeonameID   |-> 0,
     ASN             |-> 0,
     OrgName         |-> "",
     FingerprintHash |-> GenerateFingerprintHash(userAgent, language),
     IPTimezone      |-> "",
     ClientTimezone  |-> "",
     InputLanguage   |-> language]

RuleRecords ==
    { RuleRecord(country, language, userAgent, timestamp) :
        country \in {"", "TR", "DE"},
        language \in {EmptyString, <<"t", "r">>, <<"E", "N">>},
        userAgent \in {<<"A">>, <<"B">>},
        timestamp \in {0, 60} }

\* Centroids on the meridian; (0,0) is "unknown"
RuleContexts ==
    { [IPLatitude          |-> ipLat,
       IPLongitude         |-> IF ipLat = 0 THEN 0 ELSE MeridianLon,
       DeviceLatitude      |-> 0,
       DeviceLongitude     |-> 0,
       PreviousIPLatitude  |-> prevLat,
       PreviousIPLongitude |-> IF prevLat = 0 THEN 0 ELSE MeridianLon] :
        ipLat \in {0, 41000}, prevLat \in {0, 41000, 68000} }

\* The stateful rules in two configurations each
StatefulRules ==
    { Velocity(900, 80), Velocity(1, 5), Fingerprint(30), Fingerprint(1),
      NewCountryMismatchRule(20), NewCountryMismatchRule(1) }

\* rule.Validate(input, last)
CallValidate ==
    /\ unit = Nil
    /\ \E rule \in StatefulRules : \E input \in RuleRecords : \E last \in RuleRecords \cup {Nil} :
         unit' = [rule |-> rule, entry |-> "Validate", ctx |-> Nil, input |-> input,
                  last |-> last, ret |-> RuleValidate(rule, input, last)]
    /\ UNCHANGED <<rules, store, now, out, proxy, mem, gs>>

\* rule.ValidateWithGeo(ctx, input, last)
CallValidateWithGeo ==
    /\ unit = Nil
    /\ \E rule \in {r \in StatefulRules : IsEphemeralGeoRule(r)} : \E ctx \in RuleContexts :
       \E input \in RuleRecords : \E last \in RuleRecords \cup {Nil} :
         unit' = [rule |-> rule, entry |-> "ValidateWithGeo", ctx |-> ctx, input |-> input,
                  last |-> last, ret |-> RuleValidateWithGeo(rule, ctx, input, last)]
    /\ UNCHANGED <<rules, store, now, out, proxy, mem, gs>>

\* The caller has read the return value
Return ==
    /\ unit # Nil
    /\ unit' = Nil
    /\ UNCHANGED <<rules, store, now, out, proxy, mem, gs>>

NextRule == CallValidate \/ CallValidateWithGeo \/ Return

SpecRule == Init /\ [][NextRule]_vars

-----------------------------------------------------------------------------
(* The open-proxy rule and its blacklist, used by several goroutines: the   *)
(* request handlers that score and the administrators that update the set. *)
(* The rule has no lock, so a map access takes two steps (it begins, it    *)
(* ends) and accesses of different goroutines may overlap.                 *)

MaxLines == 2

Comment == <<[t |-> "#", v |-> << >>]>>

\* maskIPToPrefix of the rules package
maskIPToPrefix(ipStr) ==
    LET ip == ParseIP(ipStr) IN
    IF ip = Nil THEN EmptyString
    ELSE IF To4(ip) # Nil THEN <<IPString(Mask24(To4(ip))), Slash, Num(24)>>
    ELSE <<IPString(Mask64(ip)), Slash, Num(64)>>

\* strings.Contains(ip, "/")
ContainsSlash(s) == \E i \in 1..Len(s) : s[i] = Slash

\* The set NewOpenProxyRule builds from a list of addresses
NewOpenProxyPrefixes(proxyIPs) ==
    {maskIPToPrefix(proxyIPs[i]) : i \in 1..Len(proxyIPs)} \ {EmptyString}

\* What one line of the file adds to the set of LoadOpenProxyRule
LinePrefixes(line) ==
    IF line = EmptyString \/ line[1].t = "#" THEN {}
    ELSE IF ContainsSlash(line) THEN {line}
    ELSE {maskIPToPrefix(line)} \ {EmptyString}

\* The set LoadOpenProxyRule builds from the lines of a file
LoadOpenProxyPrefixes(lines) ==
    UNION {LinePrefixes(lines[i]) : i \in 1..Len(lines)}

NewProxy(prefixes, score) ==
    [ProxyPrefixes |-> prefixes,
     RiskScore     |-> score,
     pc            |-> [g \in Goroutines |-> "idle"],
     arg           |-> [g \in Goroutines |-> EmptyString],
     ret           |-> [g \in Goroutines |-> Nil],
     fatal         |-> FALSE]

\* The texts a list or a file of the model holds
ListTexts == {IPa, IPb, IPc, IPbad}

FileTexts ==
    {IPa, IPc, IPbad, Comment, EmptyString,
     <<V4(10, 0, 2, 0), Slash, Num(24)>>,
     <<V4(10, 0, 1, 55), Slash, Num(32)>>,
     <<V4(10, 0, 0, 0), Slash, Num(8)>>}

SeqsUpTo(S, n) == UNION {[1..k -> S] : k \in 0..n}

NewOpenProxyRule ==
    /\ proxy = Nil
    /\ \E proxyIPs \in SeqsUpTo(ListTexts, MaxLines) :
         proxy' = NewProxy(NewOpenProxyPrefixes(proxyIPs), 45)
    /\ UNCHANGED <<rules, store, now, out, unit, mem, gs>>

\* LoadOpenProxyRule on a file that opens and scans without error
LoadOpenProxyRule ==
    /\ proxy = Nil
    /\ \E lines \in SeqsUpTo(FileTexts, MaxLines) :
         proxy' = NewProxy(LoadOpenProxyPrefixes(lines), 45)
    /\ UNCHANGED <<rules, store, now, out, unit, mem, gs>>

Running == proxy # Nil /\ ~proxy.fatal

Writing(g) == proxy.pc[g] \in {"AddIP", "RemoveIP"}

Accessing(g) == proxy.pc[g] \in {"Validate", "AddIP", "RemoveIP"}

\* Another goroutine is writing the map while g accesses it
WrittenUnder(g) == \E h \in Goroutines \ {g} : Writing(h)

\* OpenProxyRule.Validate: the empty prefix returns at once, any other begins the map read
ProxyValidateBegin(g) ==
    /\ Running
    /\ proxy.pc[g] = "idle"
    /\ \E prefix \in {EmptyString, MaskIP(IPa), MaskIP(IPb), MaskIP(IPc)} :
         IF prefix = EmptyString
         THEN proxy' = [proxy EXCEPT !.arg[g] = prefix,
                                     !.ret[g] = [score |-> 0, isKey |-> FALSE, raced |-> FALSE]]
         ELSE proxy' = [proxy EXCEPT !.pc[g] = "Validate", !.arg[g] = prefix, !.ret[g] = Nil]
    /\ UNCHANGED <<rules, store, now, out, unit, mem, gs>>

\* The read ends.  Read while another goroutine writes the map, it is a data
\* race: the lookup may see the key or miss it.  The return value is kept with
\* whether the prefix was a key and whether the read was raced.
ProxyValidateEnd(g) ==
    /\ Running
    /\ proxy.pc[g] = "Validate"
    /\ \E found \in IF WrittenUnder(g) THEN BOOLEAN ELSE {proxy.arg[g] \in proxy.ProxyPrefixes} :
         proxy' = [proxy EXCEPT !.pc[g] = "idle",
                                !.ret[g] = [score |-> IF found THEN proxy.RiskScore ELSE 0,
                                            isKey |-> proxy.arg[g] \in proxy.ProxyPrefixes,
                                            raced |-> WrittenUnder(g)]]
    /\ UNCHANGED <<rules, store, now, out, unit, mem, gs>>

\* OpenProxyRule.AddIP, OpenProxyRule.RemoveIP: an unparseable address returns
\* at once, any other begins the map write
ProxyUpdateBegin(g) ==
    /\ Running
    /\ proxy.pc[g] = "idle"
    /\ \E op \in {"AddIP", "RemoveIP"} : \E ip \in ListTexts :
         LET prefix == maskIPToPrefix(ip) IN
         IF prefix = EmptyString
         THEN proxy' = [proxy EXCEPT !.arg[g] = prefix, !.ret[g] = Nil]
         ELSE proxy' = [proxy EXCEPT !.pc[g] = op, !.arg[g] = prefix, !.ret[g] = Nil]
    /\ UNCHANGED <<rules, store, now, out, unit, mem, gs>>

\* The write ends.  Written while another goroutine writes the map, the
\* update may be lost.
ProxyUpdateEnd(g) ==
    /\ Running
    /\ Writing(g)
    /\ \E applied \in IF WrittenUnder(g) THEN BOOLEAN ELSE {TRUE} :
         LET after == IF ~applied THEN proxy.ProxyPrefixes
                      ELSE IF proxy.pc[g] = "AddIP" THEN proxy.ProxyPrefixes \cup {proxy.arg[g]}
                      ELSE proxy.ProxyPrefixes \ {proxy.arg[g]}
         IN  proxy' = [proxy EXCEPT !.pc[g] = "idle", !.ProxyPrefixes = after]
    /\ UNCHANGED <<rules, store, now, out, unit, mem, gs>>

\* The runtime detects a map written while it is read or written and stops
\* the process: "fatal error: concurrent map read and map write"
ProxyFatal ==
    /\ Running
    /\ \E g \in Goroutines : Accessing(g) /\ WrittenUnder(g)
    /\ proxy' = [proxy EXCEPT !.fatal = TRUE]
    /\ UNCHANGED <<rules, store, now, out, unit, mem, gs>>

NextProxy ==
    \/ NewOpenProxyRule
    \/ LoadOpenProxyRule
    \/ \E g \in Goroutines :
         \/ ProxyValidateBegin(g)
         \/ ProxyValidateEnd(g)
         \/ ProxyUpdateBegin(g)
         \/ ProxyUpdateEnd(g)
    \/ ProxyFatal

SpecProxy == Init /\ [][NextProxy]_vars

-----------------------------------------------------------------------------
(* MaskIP and GenerateFingerprintHash called on their own *)

\* Address texts given to MaskIP: dotted-quad texts, IPv6 texts, IPv4-mapped
\* IPv6 texts (::ffff:10.0.1.0, ::ffff:10.0.1.55, ::ffff:10.0.2.9), the empty
\* string, a text that is no address, and prefixes with their "/24" or "/64".
AddressTexts ==
    {<<V4(a, 0, c, d)>> : a \in {10, 192}, c \in {1, 2}, d \in {0, 55, 255}}
    \cup {<<V6(<<8193, 3512, 0, h4, h5, 0, 0, h8>>)>> : h4 \in {0, 1}, h5 \in {0, 7}, h8 \in {0, 5}}
    \cup {<<V6(<<0, 0, 0, 0, 0, 65535, 2560, l>>)>> : l \in {256, 311, 521}}
    \cup {EmptyString, IPbad,
          <<V4(10, 0, 1, 0), Slash, Num(24)>>,
          <<V6(<<8193, 3512, 0, 1, 0, 0, 0, 0>>), Slash, Num(64)>>}

\* (userAgent, language) pairs; a string is the sequence of its characters
FingerprintPairs ==
    {<<ua, lang>> : ua \in {<<"A">>, <<"A", "|">>, <<"M">>},
                    lang \in {<<"B">>, <<"|", "B">>, <<"t", "r">>}}

\* MaskIP(ipStr), and MaskIP of the address portion of what it returned
CallMaskIP ==
    \E ipStr \in AddressTexts :
        /\ unit' = [fn |-> "MaskIP",
                    ipStr |-> ipStr,
                    ret |-> MaskIP(ipStr),
                    again |-> MaskIP(PreviousLookupArg(MaskIP(ipStr)))]
        /\ UNCHANGED <<rules, store, now, out, proxy, mem, gs>>

\* GenerateFingerprintHash of two pairs
CallGenerateFingerprintHash ==
    \E p \in FingerprintPairs, q \in FingerprintPairs :
        /\ unit' = [fn |-> "GenerateFingerprintHash",
                    p |-> p,
                    q |-> q,
                    hashP |-> GenerateFingerprintHash(p[1], p[2]),
                    hashQ |-> GenerateFingerprintHash(q[1], q[2])]
        /\ UNCHANGED <<rules, store, now, out, proxy, mem, gs>>

NextPure == CallMaskIP \/ CallGenerateFingerprintHash

SpecPure == Init /\ [][NextPure]_vars

-----------------------------------------------------------------------------
(* The distance rules called on their own, at and around their thresholds *)

\* Velocity and geofencing rules.  From latitude 41000 on the meridian,
\* haversine gives 1.000 km to 41009, 9.896 km to 41089, 10.007 km to 41090,
\* 884.000 km to 48950, 884.111 km to 48951,
\* 899.011 km to 49085, 900.012 km to 49094, 901.013 km to 49103 and
\* 2505.000 km to 63528 (900 km/h in 167 minutes).
GeoRules ==
    { Velocity(900, 80), Velocity(884, 80),
      NewGeofencingRule(41000, MeridianLon, 1, 30),
      NewGeofencingRule(41000, MeridianLon, 884, 30) }

\* Centroids: the (0,0) sentinel, a point on the equator, points on the meridian
GeoPoints ==
    {<<0, 0>>} \cup
    {<<lat, MeridianLon>> : lat \in {0, 41000, 41009, 41010, 41089, 41090, 48950, 48951, 49085, 49094,
                                            49103, 63528}}

GeoContexts ==
    { [IPLatitude          |-> ip[1],
       IPLongitude         |-> ip[2],
       DeviceLatitude      |-> 0,
       DeviceLongitude     |-> 0,
       PreviousIPLatitude  |-> prev[1],
       PreviousIPLongitude |-> prev[2]] :
        ip \in GeoPoints, prev \in {<<0, 0>>, <<41000, MeridianLon>>} }

\* Records 0, 60 and 167 minutes after the start
GeoRecords == { RuleRecord("TR", EmptyString, <<"A">>, timestamp) : timestamp \in {0, 60, 167} }

\* rule.ValidateWithGeo(ctx, input, last) of a distance rule
CallGeoRule ==
    /\ unit = Nil
    /\ \E rule \in GeoRules : \E ctx \in GeoContexts :
       \E input \in GeoRecords : \E last \in GeoRecords \cup {Nil} :
         unit' = [rule |-> rule, entry |-> "ValidateWithGeo", ctx |-> ctx, input |-> input,
                  last |-> last, ret |-> RuleValidateWithGeo(rule, ctx, input, last)]
    /\ UNCHANGED <<rules, store, now, out, proxy, mem, gs>>

NextGeoRule == CallGeoRule \/ Return

SpecGeoRule == Init /\ [][NextGeoRule]_vars

-----------------------------------------------------------------------------
(* The engine configured with data-center rules *)

\* The default provider list, and a custom list that holds 0 and the ASN of
\* the 10.0.1.0/24 network
DataCenterRules == { DefaultDataCenterRule(35), DataCenter({0, 9121}, 50) }

AddDataCenterRule == \E r \in DataCenterRules : AddRuleOf(r)

NextDataCenter == AddDataCenterRule \/ Validate \/ SaveRecord \/ Discard \/ Tick

SpecDataCenter == Init /\ [][NextDataCenter]_vars

-----------------------------------------------------------------------------
(* The engine with a velocity rule beside other rules, logins minutes apart *)

\* The rules of the impossible-travel scenario
TravelRules == { Velocity(900, 80), Timezone(40), Fingerprint(30) }

AddTravelRule == \E r \in TravelRules : AddRuleOf(r)

\* Five minutes pass
TickFive ==
    /\ out = Nil
    /\ now < MaxTime * 5
    /\ now' = now + 5
    /\ UNCHANGED <<rules, store, out, unit, proxy, mem, gs>>

\* The host persists the record Validate returned.  unit notes, for the
\* properties, the address of the attempt each stored record came from (the
\* record itself holds only the prefix).
SaveRecordFrom ==
    /\ out # Nil
    /\ out.status = "returned"
    /\ out.record.UserID \in Persisted
    /\ store' = SaveRecordData(store, out.record)
    /\ unit' = [from |-> [u \in Users |->
                             IF u = out.record.UserID THEN out.input.IPAddress
                             ELSE IF unit = Nil THEN EmptyString
                             ELSE unit.from[u]]]
    /\ out' = Nil
    /\ UNCHANGED <<rules, now, proxy, mem, gs>>

NextTravel == AddTravelRule \/ Validate \/ SaveRecordFrom \/ Discard \/ TickFive

SpecTravel == Init /\ [][NextTravel]_vars

-----------------------------------------------------------------------------
(* SaveRecord and GetLastRecord called from two goroutines.  The variable    *)
(* store is the map the calls are to be equivalent to: it takes a save when  *)
(* the save returns.                                                         *)

\* The records the host saves
SavedRecords ==
    { [RuleRecord("TR", EmptyString, <<"A">>, timestamp) EXCEPT !.UserID = u] :
        u \in Users, timestamp \in {0, 60} }

\* SaveRecord(record): m.mu.Lock() has returned
SaveRecordLock(g) ==
    /\ gs[g].pc = "idle"
    /\ Len(mem.heap) < MaxSaves
    /\ CanLock(mem)
    /\ \E record \in SavedRecords \cup {Nil} :
         gs' = [gs EXCEPT ![g] = [pc |-> "SaveRecord", op |-> "SaveRecord", user |-> "",
                                  rec |-> record, ret |-> Nil]]
    /\ mem' = [mem EXCEPT !.writer = g]
    /\ UNCHANGED <<rules, store, now, out, unit, proxy>>

\* The nil check, the copy and the map write
SaveRecordWrite(g) ==
    /\ gs[g].pc = "SaveRecord"
    /\ IF gs[g].rec = Nil
       THEN /\ mem' = mem
            /\ gs' = [gs EXCEPT ![g].pc = "Unlock", ![g].ret = [err |-> TRUE]]
       ELSE /\ mem' = WriteRecord(mem, gs[g].rec)
            /\ gs' = [gs EXCEPT ![g].pc = "Unlock", ![g].ret = [err |-> FALSE]]
    /\ UNCHANGED <<rules, store, now, out, unit, proxy>>

\* defer m.mu.Unlock(): SaveRecord returns
SaveRecordUnlock(g) ==
    /\ gs[g].pc = "Unlock"
    /\ mem' = [mem EXCEPT !.writer = "none"]
    /\ gs' = [gs EXCEPT ![g].pc = "idle"]
    /\ store' = SaveRecordData(store, gs[g].rec)
    /\ UNCHANGED <<rules, now, out, unit, proxy>>

\* GetLastRecord(userID): m.mu.RLock() has returned
GetLastRecordRLock(g) ==
    /\ gs[g].pc = "idle"
    /\ CanRLock(mem)
    /\ \E userID \in Users :
         gs' = [gs EXCEPT ![g] = [pc |-> "GetLastRecord", op |-> "GetLastRecord",
                                  user |-> userID, rec |-> Nil, ret |-> Nil]]
    /\ mem' = [mem EXCEPT !.readers = @ \cup {g}]
    /\ UNCHANGED <<rules, store, now, out, unit, proxy>>

\* The map read and defer m.mu.RUnlock(): GetLastRecord returns.  The answer
\* is kept beside the answer of store at that moment.
GetLastRecordReturn(g) ==
    /\ gs[g].pc = "GetLastRecord"
    /\ gs' = [gs EXCEPT ![g].pc = "idle",
                        ![g].ret = [res  |-> GetLastRecord(DataOf(mem), gs[g].user),
                                    spec |-> GetLastRecord(store, gs[g].user)]]
    /\ mem' = [mem EXCEPT !.readers = @ \ {g}]
    /\ UNCHANGED <<rules, store, now, out, unit, proxy>>

NextStore ==
    \E g \in Goroutines :
        \/ SaveRecordLock(g)
        \/ SaveRecordWrite(g)
        \/ SaveRecordUnlock(g)
        \/ GetLastRecordRLock(g)
        \/ GetLastRecordReturn(g)

SpecStore == Init /\ [][NextStore]_vars

-----------------------------------------------------------------------------
(* Validate step by step, called from two goroutines on one engine, while    *)
(* the host saves returned records                                           *)

ConcurrentRules == { Velocity(900, 80), Fingerprint(30) }

\* The rule set is configured before the calls begin
AddConcurrentRule ==
    /\ \A g \in Goroutines : gs[g] = Idle
    /\ mem = NewMemoryStore
    /\ \E r \in ConcurrentRules : AddRuleOf(r)

\* Attempts of one user from two networks and two devices
ConcurrentInputs == { MakeInput("u1", IPa2, ClientHome), MakeInput("u1", IPb, ClientPhone) }

\* The history fetch answers or fails; the readers answer
ConcurrentEnvs ==
    [locFails : {FALSE}, asnFails : {FALSE}, prevFails : {FALSE}, hist : {"ok", "err"}]

\* Another goroutine is inside Validate
Beside(g) == \E h \in Goroutines \ {g} : gs[h].pc \in {"fetch", "rules"}

\* Validate up to the record literal (engine.go:124-153).  beside tells whether
\* the call has taken a step while another call was running.
ValidateBegin(g) ==
    /\ gs[g].pc = "idle"
    /\ rules # << >>
    /\ \E input \in ConcurrentInputs : \E env \in ConcurrentEnvs :
         LET geoData == GeoDataOrZero(GetLocation(input.IPAddress, env.locFails))
             asn     == ASNOrZero(GetASN(input.IPAddress, env.asnFails))
         IN  gs' = [gs EXCEPT ![g] =
                      [pc |-> "fetch", op |-> "Validate", user |-> input.UserID, rec |-> Nil,
                       ret |-> Nil, input |-> input, env |-> env, timestamp |-> now,
                       geoData |-> geoData,
                       record |-> NewLoginRecord(input, now, MaskIP(input.IPAddress), geoData, asn),
                       fetches |-> 0, snapshot |-> Nil, lastRecord |-> 0, previous |-> Nil,
                       ctx |-> Nil, result |-> Nil, i |-> 0, passed |-> << >>,
                       beside |-> Beside(g)]]
    /\ UNCHANGED <<rules, store, now, out, unit, proxy, mem>>

\* g.historyStore.GetLastRecord under the read lock, buildGeoContext and the
\* empty result (engine.go:155-170).  lastRecord is the pointer the store
\* returned; previous is what it pointed to at that moment.
ValidateFetch(g) ==
    /\ gs[g].pc = "fetch"
    /\ CanRLock(mem)
    /\ LET l        == gs[g]
           previous == LastRecordOrNil(HistoryFetch(DataOf(mem), l.user, l.env.hist))
       IN  gs' = [gs EXCEPT ![g] =
                    [l EXCEPT !.pc = "rules",
                              !.fetches = @ + 1,
                              !.snapshot = DataOf(mem),
                              !.lastRecord = IF previous = Nil THEN 0 ELSE mem.data[l.user],
                              !.previous = previous,
                              !.ctx = buildGeoContext(l.geoData, l.input, previous, l.env.prevFails),
                              !.result = NewRiskResult,
                              !.i = 1,
                              !.beside = @ \/ Beside(g)]]
    /\ UNCHANGED <<rules, store, now, out, unit, proxy, mem>>

\* One iteration of the rule loop (engine.go:172-196)
ValidateRule(g) ==
    /\ gs[g].pc = "rules"
    /\ gs[g].i <= Len(rules)
    /\ LET l    == gs[g]
           cur  == currentRecord(gs, g)
           last == Deref(mem.heap, l.lastRecord)
           d    == Dispatch(rules[l.i], l.ctx, cur, last)
       IN  gs' = [gs EXCEPT ![g] =
                    [l EXCEPT !.result = Aggregate(l.result, rules[l.i], d.score, d.err),
                              !.passed = Append(@, [current |-> cur, last |-> last]),
                              !.i = @ + 1,
                              !.beside = @ \/ Beside(g)]]
    /\ UNCHANGED <<rules, store, now, out, unit, proxy, mem>>

\* return result, &currentRecord, nil (engine.go:201)
ValidateReturn(g) ==
    /\ gs[g].pc = "rules"
    /\ gs[g].i > Len(rules)
    /\ gs' = [gs EXCEPT ![g].pc = "idle",
                        ![g].beside = @ \/ Beside(g),
                        ![g].ret = [result |-> gs[g].result, record |-> currentRecord(gs, g)]]
    /\ UNCHANGED <<rules, store, now, out, unit, proxy, mem>>

\* The host saves the record its Validate returned: store.SaveRecord(record),
\* m.mu.Lock() has returned
HostSaveLock(g) ==
    /\ gs[g].pc = "idle"
    /\ gs[g].op = "Validate"
    /\ Len(mem.heap) < MaxSaves
    /\ CanLock(mem)
    /\ gs' = [gs EXCEPT ![g] = [pc |-> "SaveRecord", op |-> "SaveRecord", user |-> "",
                                rec |-> gs[g].ret.record, ret |-> Nil]]
    /\ mem' = [mem EXCEPT !.writer = g]
    /\ UNCHANGED <<rules, store, now, out, unit, proxy>>

NextConcurrent ==
    \/ AddConcurrentRule
    \/ \E g \in Goroutines :
        \/ ValidateBegin(g)
        \/ ValidateFetch(g)
        \/ ValidateRule(g)
        \/ ValidateReturn(g)
        \/ HostSaveLock(g)
        \/ SaveRecordWrite(g)
        \/ SaveRecordUnlock(g)

SpecConcurrent == Init /\ [][NextConcurrent]_vars

-----------------------------------------------------------------------------
(* The open-proxy rule administered and called by one goroutine at a time *)

\* AddIP that stores the address as it came
AddIPRaw(prefixes, ip) ==
    IF maskIPToPrefix(ip) # EmptyString THEN prefixes \cup {ip} ELSE prefixes

\* OpenProxyRule.AddIP on the key set
AddIP(prefixes, ip) ==
    LET prefix == maskIPToPrefix(ip) IN
    IF prefix # EmptyString THEN prefixes \cup {prefix} ELSE prefixes

\* OpenProxyRule.RemoveIP on the key set
RemoveIP(prefixes, ip) ==
    LET prefix == maskIPToPrefix(ip) IN
    IF prefix # EmptyString THEN prefixes \ {prefix} ELSE prefixes

\* OpenProxyRule.Count
Count(o) == Cardinality(o.ProxyPrefixes)

\* OpenProxyRule.Validate on a record with this masked prefix
OpenProxyValidate(o, maskedIPPrefix) ==
    IF maskedIPPrefix = EmptyString THEN Ok(0)
    ELSE IF maskedIPPrefix \in o.ProxyPrefixes THEN Ok(o.RiskScore)
    ELSE Ok(0)

\* Addresses given to AddIP and RemoveIP, and of the attempts: two of one /24,
\* an IPv4-mapped one of the same /24, one of another /24, two of one /64, and
\* a text that is no address
AdminTexts == {IPa, IPa2, IPm, IPb, IPc, IPc2, IPbad}

\* unit holds the last call: its name, its argument, what it returned and the
\* number of entries before it
CallAddIP ==
    /\ proxy # Nil
    /\ \E ip \in AdminTexts :
         /\ proxy' = [proxy EXCEPT !.ProxyPrefixes = AddIP(@, ip)]
         /\ unit' = [op |-> "AddIP", ip |-> ip, ret |-> Ok(0), before |-> Count(proxy)]
    /\ UNCHANGED <<rules, store, now, out, mem, gs>>

CallRemoveIP ==
    /\ proxy # Nil
    /\ \E ip \in AdminTexts :
         /\ proxy' = [proxy EXCEPT !.ProxyPrefixes = RemoveIP(@, ip)]
         /\ unit' = [op |-> "RemoveIP", ip |-> ip, ret |-> Ok(0), before |-> Count(proxy)]
    /\ UNCHANGED <<rules, store, now, out, mem, gs>>

CallCount ==
    /\ proxy # Nil
    /\ unit' = [op |-> "Count", ip |-> EmptyString, ret |-> Ok(Count(proxy)),
                before |-> Count(proxy)]
    /\ UNCHANGED <<rules, store, now, out, proxy, mem, gs>>

\* Validate on the record of an attempt from ip
CallOpenProxyValidate ==
    /\ proxy # Nil
    /\ \E ip \in AdminTexts :
         unit' = [op |-> "Validate", ip |-> ip, ret |-> OpenProxyValidate(proxy, MaskIP(ip)),
                  before |-> Count(proxy)]
    /\ UNCHANGED <<rules, store, now, out, proxy, mem, gs>>

NextProxyAdmin ==
    NewOpenProxyRule \/ CallAddIP \/ CallRemoveIP \/ CallCount \/ CallOpenProxyValidate

SpecProxyAdmin == Init /\ [][NextProxyAdmin]_vars

-----------------------------------------------------------------------------
(* The velocity rule in the engine when a centroid is unknown.  The history  *)
(* store is shared: it also takes records of an instance whose clock is      *)
(* ahead of this one's.                                                      *)

SentinelRules == { Velocity(900, 80), Fingerprint(30) }

AddSentinelRule == \E r \in SentinelRules : AddRuleOf(r)

\* store.SaveRecord(record) with a record stamped five minutes ahead of this
\* instance's clock
SaveRecordAhead ==
    /\ out # Nil
    /\ out.status = "returned"
    /\ out.record.UserID \in Persisted
    /\ store' = SaveRecordData(store, [out.record EXCEPT !.Timestamp = @ + 5])
    /\ out' = Nil
    /\ UNCHANGED <<rules, now, unit, proxy, mem, gs>>

NextSentinel ==
    AddSentinelRule \/ Validate \/ SaveRecord \/ SaveRecordAhead \/ Discard \/ TickFive

SpecSentinel == Init /\ [][NextSentinel]_vars

-----------------------------------------------------------------------------
(* Properties *)

Returned == out # Nil /\ out.status = "returned"

Indices(seq) == 1..Len(seq)

RECURSIVE SumRiskScore(_)
SumRiskScore(violations) ==
    IF violations = << >> THEN 0
    ELSE violations[1].RiskScore + SumRiskScore(Tail(violations))

\* The calls of the last Validate that count: no error and a positive score
Scoring == {i \in Indices(out.calls) : ~out.calls[i].err /\ out.calls[i].score > 0}

\* The rules of the last Validate without those whose entry point returned an error
RECURSIVE WithoutFailing(_, _)
WithoutFailing(rs, calls) ==
    IF rs = << >> THEN << >>
    ELSE IF calls[1].err THEN WithoutFailing(Tail(rs), Tail(calls))
    ELSE <<rs[1]>> \o WithoutFailing(Tail(rs), Tail(calls))

\* C1: Validate returns a non-nil RiskResult, a non-nil LoginRecord and a nil
\* error for every input and every outcome of the ports (location lookup
\* failing, ASN lookup failing, history fetch failing, an unparseable address)
\* and whatever rules return errors.
C1_ValidateAlwaysReturns ==
    out # Nil =>
        /\ out.status = "returned"
        /\ out.result # Nil
        /\ out.record # Nil
        /\ out.err = Nil

\* A call with an unparseable address, so that both lookups fail, in which the
\* history fetch fails too and a rule returns an error
C1_Witness ==
    /\ Returned
    /\ ParseIP(out.input.IPAddress) = Nil
    /\ out.locErr
    /\ out.env.hist = "err"
    /\ \E i \in Indices(out.calls) : out.calls[i].err

\* C2: rule error isolation.  A rule whose entry point returns an error adds
\* nothing to TotalRiskScore and is not in Violations, whatever score came
\* with the error; every rule is still evaluated, and the result is the one
\* the same call gives with the failing rules left out of the rule set.
C2_RuleErrorIsolation ==
    Returned =>
        /\ Len(out.calls) = Len(out.rules)
        /\ \A i \in Indices(out.calls) :
             out.calls[i].err =>
                 \A k \in Indices(out.result.Violations) :
                     out.result.Violations[k].RuleName # RuleName(out.rules[i])
        /\ out.result =
               ValidateCall(WithoutFailing(out.rules, out.calls), store,
                            out.record.Timestamp, out.input, out.env).result

\* A failing rule that returns a positive score, followed by a rule that triggers
C2_Witness ==
    /\ Returned
    /\ Len(out.calls) = 2
    /\ out.calls[1].err /\ out.calls[1].score > 0
    /\ ~out.calls[2].err /\ out.calls[2].score > 0
    /\ Len(out.result.Violations) = 1

\* C3: TotalRiskScore is the sum of the RiskScore of the entries of
\* Violations, every entry has a positive RiskScore, the total is not
\* negative, and a rule that returns zero has no entry.
C3_TotalIsSumOfViolations ==
    Returned =>
        /\ out.result.TotalRiskScore = SumRiskScore(out.result.Violations)
        /\ \A k \in Indices(out.result.Violations) : out.result.Violations[k].RiskScore > 0
        /\ out.result.TotalRiskScore >= 0
        /\ \A i \in Indices(out.calls) :
             out.calls[i].score = 0 =>
                 \A k \in Indices(out.result.Violations) :
                     out.result.Violations[k].RuleName # RuleName(out.rules[i])
        /\ Len(out.result.Violations) <= Cardinality({i \in Indices(out.calls) : out.calls[i].score # 0})

\* A result with a violation beside a rule that returned zero
C3_Witness ==
    /\ Returned
    /\ Len(out.result.Violations) >= 1
    /\ out.result.TotalRiskScore > 0
    /\ \E i \in Indices(out.calls) : ~out.calls[i].err /\ out.calls[i].score = 0

\* C4: rules are evaluated in the order AddRule added them, and Violations is
\* ordered by that order: AddRule only appends, the calls of a Validate are
\* those of the configured rules in sequence, and the violations are the
\* scoring calls in increasing position.
C4_ConfigurationOrder ==
    /\ [][rules' # rules => \E r \in HostRules \cup BuiltinRules : rules' = Append(rules, r)]_vars
    /\ [](Returned =>
            /\ out.rules = rules
            /\ Len(out.calls) = Len(rules)
            /\ \E f \in [Indices(out.result.Violations) -> Indices(rules)] :
                 /\ \A k, l \in DOMAIN f : k < l => f[k] < f[l]
                 /\ {f[k] : k \in DOMAIN f} = Scoring
                 /\ \A k \in DOMAIN f :
                      /\ out.result.Violations[k].RuleName = RuleName(rules[f[k]])
                      /\ out.result.Violations[k].RiskScore = out.calls[f[k]].score)

\* Two different rules trigger in one call
C4_Witness ==
    /\ Returned
    /\ Len(out.result.Violations) = 2
    /\ out.result.Violations[1].RuleName # out.result.Violations[2].RuleName

\* C5: capability dispatch.  Each configured rule has exactly one entry point
\* invoked, once: ValidateWithGeo with the GeoContext of the call for a rule
\* that has it (its Validate is not invoked), Validate without any GeoContext
\* for a rule that has only that.
C5_CapabilityDispatch ==
    Returned =>
        /\ Len(out.calls) = Len(out.rules)
        /\ \A i \in Indices(out.rules) :
             LET rule == out.rules[i]
                 call == out.calls[i]
                 geo  == \/ rule.kind \in {"Geofencing", "IPGPS", "Velocity"}
                         \/ rule.kind = "Custom" /\ rule.geo
             IN  /\ call.input = out.record
                 /\ call.last = out.last
                 /\ IF geo
                    THEN /\ call.entry = "ValidateWithGeo"
                         /\ call.ctx = out.ctx
                         /\ call.score = RuleValidateWithGeo(rule, out.ctx, out.record, out.last).score
                    ELSE /\ call.entry = "Validate"
                         /\ call.ctx = Nil
                         /\ call.score = RuleValidate(rule, out.record, out.last).score

\* A rule with both entry points that score differently, beside a plain rule
C5_Witness ==
    /\ Returned
    /\ Len(out.rules) = 2
    /\ out.rules[1].kind = "Custom" /\ out.rules[1].geo
    /\ out.rules[1].score # out.rules[1].geoScore
    /\ ~out.rules[1].geoErr
    /\ out.rules[2].kind = "Fingerprint"

\* C6: the engine never persists: a Validate call leaves the history store
\* as it was, whatever the score.
C6_ValidateNeverSaves ==
    [][(out = Nil /\ out' # Nil) => store' = store]_vars

\* A call with a positive score for a user whose stored record is another one
C6_Witness ==
    /\ Returned
    /\ out.result.TotalRiskScore > 0
    /\ store[out.record.UserID] # Nil
    /\ store[out.record.UserID] # out.record

\* C7: a history fetch failure is a first login.  When GetLastRecord returns
\* an error, with or without a record beside it, every rule of the call
\* receives no previous record and the result is the one the same attempt
\* gets for a user the store holds nothing of.
C7_HistoryFailureIsFirstLogin ==
    (Returned /\ out.env.hist \in {"err", "errWithRecord"}) =>
        /\ out.last = Nil
        /\ \A i \in Indices(out.calls) : out.calls[i].last = Nil
        /\ out.ctx.PreviousIPLatitude = 0 /\ out.ctx.PreviousIPLongitude = 0
        /\ out.result =
               ValidateCall(out.rules, [u \in Users |-> Nil], out.record.Timestamp, out.input,
                            [out.env EXCEPT !.hist = "ok"]).result

\* The fetch returns an error and a record whose fingerprint differs from the
\* attempt's, and the fingerprint rule is configured
C7_Witness ==
    /\ Returned
    /\ out.env.hist = "errWithRecord"
    /\ store[out.input.UserID] # Nil
    /\ store[out.input.UserID].FingerprintHash # out.record.FingerprintHash
    /\ \E i \in Indices(out.rules) : out.rules[i].kind = "Fingerprint"

\* The violations of the last Validate that carry the name of the rule
ViolationsOf(rule) ==
    {k \in Indices(out.result.Violations) : out.result.Violations[k].RuleName = RuleName(rule)}

\* C8: when the location lookup of the address fails, Validate goes on with
\* the location empty: the record has country "", city 0 and IP timezone "",
\* the current IP centroid of the GeoContext is (0,0), the geofencing, IP-GPS,
\* velocity and timezone rules contribute zero, and the other rules are
\* scored as they score on the record.
C8_LocationFailureProceedsEmpty ==
    (Returned /\ out.locErr) =>
        /\ out.record.CountryCode = ""
        /\ out.record.CityGeonameID = 0
        /\ out.record.IPTimezone = ""
        /\ out.ctx.IPLatitude = 0 /\ out.ctx.IPLongitude = 0
        /\ Len(out.calls) = Len(out.rules)
        /\ \A i \in Indices(out.rules) :
             IF out.rules[i].kind \in {"Geofencing", "IPGPS", "Velocity", "Timezone"}
             THEN /\ out.calls[i].score = 0
                  /\ ViolationsOf(out.rules[i]) = {}
             ELSE /\ out.calls[i].score = RuleValidate(out.rules[i], out.record, out.last).score
                  /\ ~out.calls[i].err
                  /\ (out.calls[i].score > 0 <=> ViolationsOf(out.rules[i]) # {})

\* The lookup of the city reader fails for an address of a data-center network,
\* beside a rule that would have flagged the location
C8_Witness ==
    /\ Returned
    /\ out.env.locFails
    /\ CityRecord(ParseIP(out.input.IPAddress)).Timezone # out.input.ClientTimezone
    /\ \E i \in Indices(out.rules) : out.rules[i].kind = "Timezone"
    /\ \E i \in Indices(out.rules) :
         out.rules[i].kind = "DataCenter" /\ out.calls[i].score > 0

\* The fields of the LoginRecord
LoginRecordFields ==
    {"UserID", "Timestamp", "MaskedIPPrefix", "CountryCode", "CityGeonameID", "ASN",
     "OrgName", "FingerprintHash", "IPTimezone", "ClientTimezone"}

IsIPv4Text(s) == Len(s) = 1 /\ s[1].t = "v4"

IsIPv6Text(s) == Len(s) = 1 /\ s[1].t = "v6"

\* Two IPv4 texts that differ at most in the low 8 bits
DifferOnlyLow8(a, b) ==
    /\ IsIPv4Text(a) /\ IsIPv4Text(b)
    /\ \A i \in 1..3 : a[1].v[i] = b[1].v[i]

\* Two IPv6 texts that differ at most in the low 64 bits
DifferOnlyLow64(a, b) ==
    /\ IsIPv6Text(a) /\ IsIPv6Text(b)
    /\ \A i \in 1..4 : a[1].v[i] = b[1].v[i]

\* The address is an IPv4 address to Go: dotted-quad text or IPv4-mapped IPv6 text
IsIPv4Address(s) == LET ip == ParseIP(s) IN IF ip = Nil THEN FALSE ELSE To4(ip) # Nil

IsIPv6Address(s) == LET ip == ParseIP(s) IN IF ip = Nil THEN FALSE ELSE To4(ip) = Nil

\* Two addresses of one /24 (IPv4 to Go) or of one /64 (any other IPv6)
SameMaskedNetwork(a, b) ==
    LET ipa == ParseIP(a)
        ipb == ParseIP(b)
    IN  IF ipa = Nil \/ ipb = Nil THEN FALSE
        ELSE LET a4 == To4(ipa)
                 b4 == To4(ipb)
             IN  IF a4 # Nil /\ b4 # Nil
                 THEN \A i \in 1..3 : a4[i] = b4[i]
                 ELSE IF a4 = Nil /\ b4 = Nil
                 THEN \A i \in 1..4 : ipa[i] = ipb[i]
                 ELSE FALSE

\* What C9 says of the record itself: the prefix is MaskIP of the address,
\* empty for an unparseable one, and the record has no field for the address.
RecordHoldsPrefixOnly ==
    /\ out.record.MaskedIPPrefix = MaskIP(out.input.IPAddress)
    /\ (ParseIP(out.input.IPAddress) = Nil => out.record.MaskedIPPrefix = EmptyString)
    /\ (ParseIP(out.input.IPAddress) # Nil => out.record.MaskedIPPrefix # out.input.IPAddress)
    /\ DOMAIN out.record = LoginRecordFields

C10_FirstLoginContributesZero ==
    (unit # Nil /\ unit.last = Nil) =>
        (~unit.ret.err /\ unit.ret.score = 0)

\* C11 as stated: the country-mismatch rule returns its configured score
\* exactly when a previous record exists, the current and the previous
\* country code are both non-empty and the two differ; otherwise zero.
C11_CountryMismatchByPreviousCountry ==
    (unit # Nil /\ unit.rule.kind = "CountryMismatch") =>
        /\ ~unit.ret.err
        /\ unit.ret.score =
               IF /\ unit.last # Nil
                  /\ unit.input.CountryCode # ""
                  /\ unit.last.CountryCode # ""
                  /\ unit.input.CountryCode # unit.last.CountryCode
               THEN unit.rule.RiskScore
               ELSE 0

\* C12 as stated: the blacklist of the open-proxy rule is guarded by a
\* reader/writer lock: scoring reads may overlap each other, but no AddIP or
\* RemoveIP accesses the set while another goroutine reads or writes it.
C12_BlacklistAccessIsSynchronized ==
    proxy # Nil =>
        \A g \in Goroutines : \A h \in Goroutines \ {g} :
            ~(Writing(g) /\ Accessing(h))

\* A key of the blacklist in masked form: an IPv4 address with last octet 0
\* and "/24", or an IPv6 address with low 64 bits 0 and "/64"
IsMaskedPrefix(k) ==
    /\ Len(k) = 3
    /\ k[2] = Slash
    /\ \/ /\ k[1].t = "v4"
          /\ k[1].v[4] = 0
          /\ k[3] = Num(24)
       \/ /\ k[1].t = "v6"
          /\ \A i \in 5..8 : k[1].v[i] = 0
          /\ k[3] = Num(64)

\* C13 as stated: after any sequence of NewOpenProxyRule, LoadOpenProxyRule,
\* AddIP and RemoveIP every key of the blacklist is a masked prefix, and a
\* scoring call that no update overlaps returns the score exactly when the
\* record's non-empty masked prefix is a key.
C13_BlacklistHoldsMaskedPrefixes ==
    proxy # Nil =>
        /\ \A k \in proxy.ProxyPrefixes : IsMaskedPrefix(k)
        /\ \A g \in Goroutines :
             (proxy.ret[g] # Nil /\ ~proxy.ret[g].raced) =>
                 proxy.ret[g].score =
                     IF proxy.arg[g] # EmptyString /\ proxy.ret[g].isKey
                     THEN proxy.RiskScore
                     ELSE 0


\* The four octets of an address that is IPv4 to net.IP.To4, read off its text
OctetsOf(s) ==
    IF s[1].t = "v4" THEN s[1].v
    ELSE <<s[1].v[7] \div 256, s[1].v[7] % 256, s[1].v[8] \div 256, s[1].v[8] % 256>>

\* The address with its last octet set to 0, followed by "/24"
Prefix24(o) == <<V4(o[1], o[2], o[3], 0), Slash, Num(24)>>

\* The address with its low 64 bits set to 0, followed by "/64"
Prefix64(h) == <<V6(<<h[1], h[2], h[3], h[4], 0, 0, 0, 0>>), Slash, Num(64)>>

MaskIPCalled == unit # Nil /\ unit.fn = "MaskIP"

C15_MaskIPIdempotent ==
    (MaskIPCalled /\ ParseIP(unit.ipStr) # Nil) => unit.again = unit.ret

\* MaskIP was called on a parseable address that masking changes
C15_Witness ==
    /\ MaskIPCalled
    /\ ParseIP(unit.ipStr) # Nil
    /\ unit.ret # EmptyString
    /\ PreviousLookupArg(unit.ret) # unit.ipStr
    /\ unit.again = unit.ret

\* C16 as stated: with the digest injective on its input string, two
\* different (userAgent, language) pairs have different hashes and identical
\* pairs have identical hashes.
C16_FingerprintHashInjective ==
    (unit # Nil /\ unit.fn = "GenerateFingerprintHash") =>
        ((unit.p = unit.q) <=> (unit.hashP = unit.hashQ))


\* A distance rule has returned from ValidateWithGeo
GeoRuleCalled(kind) ==
    /\ unit # Nil
    /\ unit.entry = "ValidateWithGeo"
    /\ unit.rule.kind = kind

KnownCentroid(lat, lon) == ~(lat = 0 /\ lon = 0)

\* Metres between the current and the previous centroid of the call
TravelMetres ==
    haversine(unit.ctx.IPLatitude, unit.ctx.IPLongitude,
              unit.ctx.PreviousIPLatitude, unit.ctx.PreviousIPLongitude)

ElapsedMinutes == unit.input.Timestamp - unit.last.Timestamp

\* The velocity rule was called with a previous record, both centroids known
\* and time elapsed
VelocityCase ==
    /\ GeoRuleCalled("Velocity")
    /\ unit.last # Nil
    /\ KnownCentroid(unit.ctx.IPLatitude, unit.ctx.IPLongitude)
    /\ KnownCentroid(unit.ctx.PreviousIPLatitude, unit.ctx.PreviousIPLongitude)
    /\ ElapsedMinutes > 0

\* C17: with a previous record, known current and previous centroids and
\* elapsed time > 0, the velocity rule returns its configured score exactly
\* when distance divided by elapsed hours is strictly greater than the
\* configured max speed; with max speed 900 km/h and 1 hour elapsed it
\* triggers from 901 km on and does not trigger up to exactly 900 km.
C17_VelocityBoundary ==
    VelocityCase =>
        /\ ~unit.ret.err
        /\ unit.ret.score \in {0, unit.rule.RiskScore}
        /\ (unit.ret.score = unit.rule.RiskScore) <=>
               (TravelMetres * 60 > unit.rule.MaxSpeedKmh * 1000 * ElapsedMinutes)
        /\ (unit.rule.MaxSpeedKmh = 900 /\ ElapsedMinutes = 60) =>
               /\ TravelMetres >= 901000 => unit.ret.score = unit.rule.RiskScore
               /\ TravelMetres <= 900000 => unit.ret.score = 0

\* Travel at exactly the maximum speed (884.000 km in one hour at 884 km/h, or
\* 2505.000 km in 167 minutes at 900 km/h), not flagged
C17_Witness ==
    /\ VelocityCase
    /\ TravelMetres > 0
    /\ TravelMetres * 60 = unit.rule.MaxSpeedKmh * 1000 * ElapsedMinutes
    /\ unit.ret.score = 0

\* Metres between the configured center and the current centroid of the call
CenterMetres ==
    haversine(unit.rule.CenterLat, unit.rule.CenterLon, unit.ctx.IPLatitude, unit.ctx.IPLongitude)

\* C18: the geofencing rule returns its configured score exactly when the
\* current IP centroid is not (0,0) and its distance from the configured
\* center is strictly greater than the radius; a centroid at the center never
\* triggers, and a centroid at distance exactly the radius does not trigger.
C18_GeofencingBoundary ==
    GeoRuleCalled("Geofencing") =>
        /\ ~unit.ret.err
        /\ unit.ret.score \in {0, unit.rule.RiskScore}
        /\ (unit.ret.score = unit.rule.RiskScore) <=>
               /\ KnownCentroid(unit.ctx.IPLatitude, unit.ctx.IPLongitude)
               /\ CenterMetres > unit.rule.RadiusKm * 1000
        /\ (unit.ctx.IPLatitude = unit.rule.CenterLat /\ unit.ctx.IPLongitude = unit.rule.CenterLon)
               => unit.ret.score = 0
        /\ (KnownCentroid(unit.ctx.IPLatitude, unit.ctx.IPLongitude)
               /\ CenterMetres = unit.rule.RadiusKm * 1000) => unit.ret.score = 0

\* A centroid on the circle (1.000 km at radius 1, 884.000 km at radius 884),
\* not flagged
C18_Witness ==
    /\ GeoRuleCalled("Geofencing")
    /\ KnownCentroid(unit.ctx.IPLatitude, unit.ctx.IPLongitude)
    /\ CenterMetres = unit.rule.RadiusKm * 1000
    /\ unit.ret.score = 0


\* The data-center rules of the last Validate
DataCenterIndices == {i \in Indices(out.rules) : out.rules[i].kind = "DataCenter"}

\* C19: the data-center rule returns its configured score exactly when the
\* record's ASN is non-zero and is a key of the provider blacklist; ASN 0
\* never triggers, even when 0 is a key of a custom blacklist, so a failed ASN
\* lookup in Validate never produces a data-center violation.
C19_DataCenterByASN ==
    Returned =>
        /\ \A i \in DataCenterIndices :
             /\ ~out.calls[i].err
             /\ out.calls[i].score =
                    IF out.record.ASN # 0 /\ out.record.ASN \in out.rules[i].BlacklistedASNs
                    THEN out.rules[i].RiskScore
                    ELSE 0
             /\ (out.calls[i].score > 0) <=> (NewViolation(out.rules[i], out.rules[i].RiskScore)
                                                 \in {out.result.Violations[j] : j \in Indices(out.result.Violations)})
        /\ (out.record.ASN = 0 \/ out.env.asnFails) =>
               \A j \in Indices(out.result.Violations) :
                   out.result.Violations[j].RuleName # "Data Center IP"
        /\ out.env.asnFails => out.record.ASN = 0

\* The ASN lookup fails for an address of the 10.0.1.0/24 network while a
\* rule whose blacklist holds both 0 and that network's ASN is configured
C19_Witness ==
    /\ Returned
    /\ out.env.asnFails
    /\ GetASN(out.input.IPAddress, FALSE).asn # 0
    /\ \E i \in DataCenterIndices :
         /\ 0 \in out.rules[i].BlacklistedASNs
         /\ GetASN(out.input.IPAddress, FALSE).asn \in out.rules[i].BlacklistedASNs
         /\ out.calls[i].score = 0


\* The violations the last Validate recorded
RecordedViolations == {out.result.Violations[j] : j \in Indices(out.result.Violations)}

\* Metres between the IP centroid and the device of the last Validate
DeviceMetres ==
    haversine(out.ctx.IPLatitude, out.ctx.IPLongitude,
              out.ctx.DeviceLatitude, out.ctx.DeviceLongitude)

\* The lookup of the last Validate gave country "NL" and a timezone, the client
\* reported another timezone and supplied device coordinates
ScenarioB ==
    /\ Returned
    /\ ~out.locErr
    /\ GetLocation(out.input.IPAddress, FALSE).data.CountryCode = "NL"
    /\ GetLocation(out.input.IPAddress, FALSE).data.Timezone # ""
    /\ out.input.ClientTimezone # ""
    /\ GetLocation(out.input.IPAddress, FALSE).data.Timezone # out.input.ClientTimezone
    /\ ~(out.input.Latitude = 0 /\ out.input.Longitude = 0)

\* C20: when the IP lookup yields country "NL" with a non-empty timezone that
\* differs from the non-empty client-reported timezone, and the device
\* coordinates lie farther from the IP centroid than the IP-GPS threshold, one
\* Validate call records a timezone-mismatch violation and an IP-GPS
\* violation, each with its configured score, and the returned LoginRecord has
\* country code "NL" and no latitude or longitude.
C20_ScenarioB ==
    ScenarioB =>
        /\ \A i \in Indices(out.rules) :
             /\ out.rules[i].kind = "Timezone" =>
                    /\ ~out.calls[i].err
                    /\ out.calls[i].score = out.rules[i].RiskScore
                    /\ NewViolation(out.rules[i], out.rules[i].RiskScore) \in RecordedViolations
             /\ (out.rules[i].kind = "IPGPS" /\ DeviceMetres > out.rules[i].MaxDistanceKm * 1000) =>
                    /\ ~out.calls[i].err
                    /\ out.calls[i].score = out.rules[i].RiskScore
                    /\ NewViolation(out.rules[i], out.rules[i].RiskScore) \in RecordedViolations
        /\ out.record.CountryCode = "NL"
        /\ DOMAIN out.record = LoginRecordFields
        /\ {"Latitude", "Longitude"} \cap DOMAIN out.record = {}

\* Scenario B with both rules configured and the device beyond the threshold
C20_Witness ==
    /\ ScenarioB
    /\ \E i \in Indices(out.rules) : out.rules[i].kind = "Timezone"
    /\ \E i \in Indices(out.rules) :
         /\ out.rules[i].kind = "IPGPS"
         /\ DeviceMetres > out.rules[i].MaxDistanceKm * 1000
    /\ Len(out.result.Violations) = 2
    /\ out.result.TotalRiskScore = 65


\* Metres between the current and the previous IP centroid of the last Validate
TravelledMetres ==
    haversine(out.ctx.IPLatitude, out.ctx.IPLongitude,
              out.ctx.PreviousIPLatitude, out.ctx.PreviousIPLongitude)

\* Minutes between the record of the last Validate and the previous record
MinutesSinceLast == out.record.Timestamp - out.last.Timestamp

\* The configured scores of the rules that triggered in the last Validate,
\* each rule counted once
RECURSIVE TriggeredScores(_, _)
TriggeredScores(rs, calls) ==
    IF rs = << >> THEN 0
    ELSE (IF ~calls[1].err /\ calls[1].score > 0 THEN rs[1].RiskScore ELSE 0)
         + TriggeredScores(Tail(rs), Tail(calls))

\* The second login of a user, five minutes after the stored first one, from
\* an address whose centroid is 3000 km or more from the first one's
ScenarioC ==
    /\ Returned
    /\ out.last # Nil
    /\ out.last.UserID = out.input.UserID
    /\ MinutesSinceLast = 5
    /\ KnownCentroid(out.ctx.IPLatitude, out.ctx.IPLongitude)
    /\ KnownCentroid(out.ctx.PreviousIPLatitude, out.ctx.PreviousIPLongitude)
    /\ TravelledMetres >= 3000000

\* C21: after a user's first login is validated and its record stored, a
\* second Validate for the same user 5 minutes later whose IP geolocates
\* 3000 km from the first produces a velocity violation, and the total is the
\* velocity rule's configured score plus the scores of the other rules that
\* triggered, each counted once.
C21_ScenarioC ==
    ScenarioC =>
        /\ \A i \in Indices(out.rules) :
             out.rules[i].kind = "Velocity" =>
                 /\ ~out.calls[i].err
                 /\ out.calls[i].score = out.rules[i].RiskScore
                 /\ NewViolation(out.rules[i], out.rules[i].RiskScore) \in RecordedViolations
        /\ out.result.TotalRiskScore = TriggeredScores(out.rules, out.calls)
        /\ out.result.TotalRiskScore = SumRiskScore(out.result.Violations)
        /\ Len(out.result.Violations) = Cardinality(Scoring)

\* Scenario C with the velocity rule and another rule that triggered
C21_Witness ==
    /\ ScenarioC
    /\ \E i \in Indices(out.rules) : out.rules[i].kind = "Velocity"
    /\ \E i \in Indices(out.rules) : out.rules[i].kind # "Velocity" /\ out.calls[i].score > 0
    /\ Len(out.result.Violations) = 2
    /\ out.result.TotalRiskScore > 80


\* C22: after any interleaving of SaveRecord and GetLastRecord calls,
\* GetLastRecord(u) returns the record of the most recent completed SaveRecord
\* for u, or none and no error if none was saved; saves for other users do not
\* change what is returned for u, and concurrent saves for one user leave
\* exactly one of the records (the last write).
C22_StoreIsLastWriteWins ==
    /\ mem.writer = "none" => DataOf(mem) = store
    /\ \A g \in Goroutines :
         (gs[g].op = "GetLastRecord" /\ gs[g].ret # Nil) =>
             /\ gs[g].ret.res = gs[g].ret.spec
             /\ ~gs[g].ret.res.err
    /\ \A u \in Users :
         store[u] # Nil => /\ store[u].UserID = u
                           /\ store[u] \in {mem.heap[p] : p \in Indices(mem.heap)}

\* A read that returned the second of two records saved for its user, while
\* the other user has none
C22_Witness ==
    /\ Len(mem.heap) = 2
    /\ mem.heap[1].UserID = mem.heap[2].UserID
    /\ mem.heap[1] # mem.heap[2]
    /\ \E g \in Goroutines :
         /\ gs[g].op = "GetLastRecord"
         /\ gs[g].ret # Nil
         /\ gs[g].user = mem.heap[2].UserID
         /\ gs[g].ret.res.rec = mem.heap[2]
    /\ \E u \in Users : store[u] = Nil


InValidate(g) == gs[g].pc \in {"fetch", "rules"}

\* Goroutine g takes a step of Validate
StepOfValidate(g) ==
    \/ gs[g].pc = "idle" /\ gs'[g].pc = "fetch"
    \/ InValidate(g) /\ gs'[g] # gs[g]

\* What the call of g returns when it runs alone against the same port answers
Alone(l) == ValidateCall(rules, l.snapshot, l.timestamp, l.input, l.env)

\* C23: concurrent Validate calls on one engine whose rule set is not being
\* modified do not interfere: a step of a call changes neither the engine's
\* fields nor the store nor the state of another call, and under every
\* interleaving each call returns the result and the record it would return
\* running alone against the same port answers.
C23_ConcurrentValidateIsolated ==
    [][\A g \in Goroutines :
         StepOfValidate(g) =>
             /\ rules' = rules
             /\ mem' = mem
             /\ \A h \in Goroutines \ {g} : gs'[h] = gs[h]
             /\ gs'[g].pc = "idle" =>
                    /\ gs'[g].ret.result = Alone(gs[g]).result
                    /\ gs'[g].ret.record = Alone(gs[g]).record]_vars

\* A call that ran beside another call has returned a violation, with a
\* previous record in the store
C23_Witness ==
    \E g \in Goroutines :
        /\ gs[g].op = "Validate"
        /\ gs[g].ret # Nil
        /\ gs[g].beside
        /\ gs[g].previous # Nil
        /\ gs[g].ret.result.TotalRiskScore > 0
        /\ \E h \in Goroutines \ {g} : InValidate(h) /\ gs[h].input # gs[g].input

\* The calls that are inside Validate after the history fetch, or have returned
Fetched(g) == gs[g].op = "Validate" /\ gs[g].pc # "fetch"

\* C27: one Validate call reads the history store exactly once, before any
\* rule is invoked, and every rule of the call receives the same current
\* record and the same previous record; a SaveRecord for the same user that
\* runs beside the rule loop replaces the stored entry without modifying the
\* previous record the call is using.
C27_StableHistorySnapshot ==
    \A g \in Goroutines :
        gs[g].op = "Validate" =>
            /\ gs[g].fetches = (IF gs[g].pc = "fetch" THEN 0 ELSE 1)
            /\ gs[g].pc = "fetch" => gs[g].passed = << >>
            /\ \A k \in Indices(gs[g].passed) :
                 gs[g].passed[k] = [current |-> gs[g].record, last |-> gs[g].previous]
            /\ Fetched(g) => Deref(mem.heap, gs[g].lastRecord) = gs[g].previous

\* A call in its rule loop, a rule already invoked, whose previous record is
\* no longer the stored entry of its user
C27_Witness ==
    \E g \in Goroutines :
        /\ gs[g].op = "Validate"
        /\ gs[g].pc = "rules"
        /\ gs[g].passed # << >>
        /\ gs[g].i <= Len(rules)
        /\ gs[g].lastRecord # 0
        /\ mem.data[gs[g].user] # gs[g].lastRecord
        /\ Deref(mem.heap, mem.data[gs[g].user]) # gs[g].previous


\* The text of a prefix before its last "/"
BeforeLastSlash(s) ==
    LET at == {i \in Indices(s) : s[i] = Slash} IN
    IF at = {} THEN s
    ELSE SubSeq(s, 1, (CHOOSE i \in at : \A j \in at : j <= i) - 1)

\* A previous record with a non-empty masked prefix exists
HasPreviousPrefix == out.last # Nil /\ out.last.MaskedIPPrefix # EmptyString

\* What the lookup of the previous prefix answered in the last Validate
PreviousAnswer == GetLocation(out.lookups[2], out.env.prevFails)

VelocityClockCase ==
    /\ GeoRuleCalled("Velocity")
    /\ unit.last # Nil
    /\ KnownCentroid(unit.ctx.IPLatitude, unit.ctx.IPLongitude)
    /\ KnownCentroid(unit.ctx.PreviousIPLatitude, unit.ctx.PreviousIPLongitude)
    /\ ElapsedMinutes <= 0

RepeatLogin ==
    /\ Returned
    /\ unit # Nil
    /\ out.last # Nil
    /\ out.last = store[out.input.UserID]
    /\ unit.from[out.input.UserID] = out.input.IPAddress
    /\ MinutesSinceLast > 0

\* C26 as stated: if a user's attempt from raw IP a is validated and its
\* record stored, a later Validate for the same user from the same raw IP a
\* yields no velocity violation, for every geolocation database and every
\* positive elapsed time.
C26_RepeatLoginNoVelocity ==
    RepeatLogin =>
        \A i \in Indices(out.rules) :
            out.rules[i].kind = "Velocity" => out.calls[i].score = 0


\* The addresses of the model in the /24 or /64 of ip
Neighbours(ip) == {b \in AdminTexts : SameMaskedNetwork(ip, b)}

\* The number of keys of the blacklist
Entries(o) == Cardinality(o.ProxyPrefixes)

\* C28: blacklist removal is per prefix, not per address: AddIP of an address
\* whose /24 (or /64) is already listed leaves the number of entries as it is
\* and AddIP of any other address adds one entry, RemoveIP(a) makes logins from
\* every address of a's network no longer trigger, and AddIP and RemoveIP with
\* an unparseable address leave the set unchanged.
C28_RemovalIsPerPrefix ==
    [][(proxy # Nil /\ proxy' # Nil /\ unit' # Nil) =>
         /\ (unit'.op \in {"AddIP", "RemoveIP"} /\ ParseIP(unit'.ip) = Nil) =>
                proxy'.ProxyPrefixes = proxy.ProxyPrefixes
         /\ (unit'.op = "AddIP" /\ ParseIP(unit'.ip) # Nil) =>
                /\ Entries(proxy') =
                       Entries(proxy) +
                       (IF \E b \in Neighbours(unit'.ip) : MaskIP(b) \in proxy.ProxyPrefixes
                        THEN 0 ELSE 1)
                /\ \A b \in Neighbours(unit'.ip) :
                       OpenProxyValidate(proxy', MaskIP(b)) = Ok(proxy.RiskScore)
         /\ (unit'.op = "RemoveIP" /\ ParseIP(unit'.ip) # Nil) =>
                /\ \A b \in Neighbours(unit'.ip) : OpenProxyValidate(proxy', MaskIP(b)) = Ok(0)
                /\ \A b \in AdminTexts \ Neighbours(unit'.ip) :
                       OpenProxyValidate(proxy', MaskIP(b)) = OpenProxyValidate(proxy, MaskIP(b))
         /\ unit'.op = "Count" => unit'.ret = Ok(Entries(proxy))
         /\ unit'.op = "Validate" =>
                unit'.ret = Ok(IF MaskIP(unit'.ip) # EmptyString
                                  /\ MaskIP(unit'.ip) \in proxy.ProxyPrefixes
                               THEN proxy.RiskScore ELSE 0)]_vars

\* RemoveIP of one address has removed the entry of its /24, so that a login
\* from another address of that /24 does not trigger, while another network
\* is still listed
C28_Witness ==
    /\ proxy # Nil
    /\ unit # Nil
    /\ unit.op = "RemoveIP"
    /\ unit.ip = IPa
    /\ unit.before = Entries(proxy) + 1
    /\ OpenProxyValidate(proxy, MaskIP(IPa2)) = Ok(0)
    /\ proxy.ProxyPrefixes # {}


\* The total before iteration i of the rule loop of the last Validate
TotalBefore(i) == IF i = 1 THEN 0 ELSE out.totals[i - 1]

\* C29: a rule that returns a negative score without an error is ignored by
\* the engine: it adds no violation and does not change TotalRiskScore, so
\* the running total never decreases during the rule loop.
C29_NegativeScoreIgnored ==
    Returned =>
        /\ Len(out.totals) = Len(out.rules)
        /\ \A i \in Indices(out.calls) :
             /\ out.totals[i] >= TotalBefore(i)
             /\ (~out.calls[i].err /\ out.calls[i].score < 0) =>
                    /\ out.totals[i] = TotalBefore(i)
                    /\ \A v \in RecordedViolations : v.RiskScore # out.calls[i].score
        /\ out.result.TotalRiskScore = TotalBefore(Len(out.rules) + 1)
        /\ \A v \in RecordedViolations : v.RiskScore > 0

\* A rule that returned a negative score, after a rule that triggered
C29_Witness ==
    /\ Returned
    /\ Len(out.calls) = 2
    /\ ~out.calls[1].err /\ out.calls[1].score > 0
    /\ ~out.calls[2].err /\ out.calls[2].score < 0
    /\ out.result.TotalRiskScore = out.calls[1].score
    /\ Len(out.result.Violations) = 1


\* The positions of the velocity rule in the rules of the last Validate
VelocityCalls == {i \in Indices(out.rules) : out.rules[i].kind = "Velocity"}

\* The last Validate found a previous record whose centroid it could not
\* recover: the lookup of its prefix failed, or its prefix is empty
PreviousUnlocated ==
    /\ out.last # Nil
    /\ out.env.prevFails \/ out.last.MaskedIPPrefix = EmptyString

\* C30: the velocity rule returns zero whenever the current IP centroid is
\* (0,0) or the previous IP centroid is (0,0), whatever the timestamps; when
\* the lookup of the previous record's masked prefix fails or the previous
\* record has an empty masked prefix, a stored previous record never leads to
\* a velocity violation.
C30_VelocityUnknownCentroid ==
    Returned =>
        \A i \in VelocityCalls :
            /\ ( \/ ~KnownCentroid(out.ctx.IPLatitude, out.ctx.IPLongitude)
                 \/ ~KnownCentroid(out.ctx.PreviousIPLatitude, out.ctx.PreviousIPLongitude) )
               => ~out.calls[i].err /\ out.calls[i].score = 0
            /\ PreviousUnlocated =>
                   /\ ~out.calls[i].err /\ out.calls[i].score = 0
                   /\ NewViolation(out.rules[i], out.rules[i].RiskScore) \notin RecordedViolations

\* The lookup of the previous prefix failed for a login located in another
\* city than the stored prefix, stamped earlier than the stored record
C30_Witness ==
    /\ Returned
    /\ VelocityCalls # {}
    /\ out.last # Nil
    /\ out.env.prevFails
    /\ KnownCentroid(out.ctx.IPLatitude, out.ctx.IPLongitude)
    /\ ~GetLocation(out.lookups[2], FALSE).err
    /\ GetLocation(out.lookups[2], FALSE).data.Latitude # out.ctx.IPLatitude
    /\ GetLocation(out.lookups[2], FALSE).data.Latitude # 0
    /\ out.record.Timestamp < out.last.Timestamp
    /\ \A i \in VelocityCalls : out.calls[i].score = 0

====
